---- MODULE Spec2Model ----
(***************************************************************************)
(* Model of the multiminer device manager and its per-device connection    *)
(* pool: Manager (device table, WithSession), ConnectionPool (top-level    *)
(* id -> sub-pool map) and DevicePool (idle list, active set, creation     *)
(* timestamps, captured limits).                                           *)
(*                                                                         *)
(* The specifications share the pool and registry code:                    *)
(*   Spec      concurrent callers of the Manager API (WithSession split at *)
(*             every point where it holds no lock), the cleanup task,      *)
(*             Close, SetLimits, Stats and AddOrDetect;                    *)
(*   PoolSpec  one caller driving the exported ConnectionPool API directly *)
(*             (as TestConnectionPool does), with any session argument;    *)
(*   RegSpec   one caller of Registry.Register, Registry.Detect,           *)
(*             Manager.AddOrDetect and Manager.List;                       *)
(*   LockSpec  goroutines calling the ConnectionPool with ConnectionPool.mu*)
(*             and every DevicePool.mu explicit, Driver.Open taking time;  *)
(*   TaskSpec  the goroutine of Manager.StartCleanup, its ticker and ctx,  *)
(*             and one caller of the pool that returns what it holds;      *)
(*   ListSpec  one caller of Manager.AddOrDetect, List and DeviceInfos     *)
(*             that writes to the elements of the slices it gets;          *)
(*   MgrLockSpec  goroutines calling the Manager, the Registry and the     *)
(*             pool with Manager.mu, Registry.mu, ConnectionPool.mu and    *)
(*             every DevicePool.mu explicit, Driver.Detect taking time;    *)
(*   GetSpec   one caller of Registry.Register, Detect and Get, with two   *)
(*             drivers that have the same name;                            *)
(*   ReRegSpec one caller of WithSession, AddOrDetect and Close that       *)
(*             registers a device again with another endpoint or driver.   *)
(***************************************************************************)
EXTENDS Integers, Sequences, FiniteSets, TLC

\* ------------------------------------------------------------------ bounds
MaxDrivers == 2
MaxSessions == 2
MaxPools == 2
MaxTime == 1
MaxMisuse == 1
CloseCap == 2

\* ------------------------------------------------------- program constants
DefaultMaxIdle == 5
DefaultMaxOpen == 10
DefaultIdleTime == 5

\* ------------------------------------------------------------------ inputs
IDs == {"a", "b"}
RegIDs == {"a"}
Endpoints == {"e1"}
Drivers == {"d1"}
Threads == {"t1", "t2"}
Sessions == 1..MaxSessions
ForeignSession == MaxSessions + 1
AllSessions == Sessions \cup {ForeignSession}
PoolRefs == 1..MaxPools
NoSession == 0
NoPool == 0
NoDevice == [ID |-> "", Endpoint |-> "", Driver |-> "", DriverName |-> ""]
NoDriver == ""
LimitIdleValues == {0, 1}
LimitOpenValues == {1}
LimitTimeValues == {1}
SpecIdleValues == {1}
SpecTimeValues == {0}
OpenErrors == {"CONNECTION_FAILED"}
FnResults == {"nil", "FN_ERROR"}
DetectOutcomes == {"match", "nomatch", "TIMEOUT"}

ErrNil == "nil"
ErrNotFound == "NOT_FOUND"
ErrCodeDeviceError == "DEVICE_ERROR"
ErrCodeDriverNotFound == "DRIVER_NOT_FOUND"
ErrDetect == "TIMEOUT"

VARIABLES
    reg,          \* Registry.drivers
    dev,          \* Manager.dev
    pMaxIdle,     \* ConnectionPool.maxIdle
    pMaxOpen,     \* ConnectionPool.maxOpen
    pIdleTime,    \* ConnectionPool.idleTime
    pools,        \* ConnectionPool.pools: id -> reference of a DevicePool
    heap,         \* the DevicePool objects, by reference
    nsess,        \* number of sessions Driver.Open has returned so far
    sessOrigin,   \* per session: the driver and endpoint that opened it
    openedAt,     \* per session: the time Driver.Open returned it
    closeCount,   \* per session: number of Session.Close calls (saturating)
    now,          \* the clock
    pc,           \* per caller: position in WithSession
    tid,          \* per caller: the id argument
    tdev,         \* per caller: the *Device read from the table
    tpool,        \* per caller: the *DevicePool read from the map
    tsess,        \* per caller: the session checked out
    obs,          \* per caller: what the current / last call did and returned
    cuPending,    \* CleanUp: the snapshot of sub-pools still to clean
    last,         \* PoolSpec: the last call of the single pool client
    chain,        \* PoolSpec: the GetSession, ReturnSession, GetSession run so far
    held,         \* PoolSpec: per session, the id the client checked it out for
    misuse,       \* PoolSpec: returns of sessions the client did not hold
    swept,        \* PoolSpec: the sessions the last call, a CleanUp, closed
    shut,         \* Spec: Manager.Close has returned and no WithSession began since
    rcall,        \* RegSpec: the last call of the registry / device table client
    locks,        \* LockSpec, MgrLockSpec: the holders of the mutexes
    lk,           \* LockSpec: per goroutine, the call it runs and its position
    ctxDone,      \* TaskSpec: the ctx given to StartCleanup is cancelled
    tickerC,      \* TaskSpec: the ticks waiting in ticker.C (capacity 1)
    taskPc,       \* TaskSpec: the position of the cleanup goroutine
    listed        \* RegSpec: the slice the last List() / DeviceInfos() returned

vars == <<reg, dev, pMaxIdle, pMaxOpen, pIdleTime, pools, heap, nsess,
          sessOrigin, openedAt, closeCount, now, pc, tid, tdev, tpool, tsess, obs,
          cuPending, last, chain, held, misuse, swept, shut, rcall, locks, lk,
          ctxDone, tickerC, taskPc, listed>>

poolVars == <<pools, heap, nsess, sessOrigin, openedAt, closeCount>>
limitVars == <<pMaxIdle, pMaxOpen, pIdleTime>>
threadVars == <<pc, tid, tdev, tpool, tsess, obs>>
clientVars == <<last, chain, held, misuse, swept>>
lockVars == <<locks, lk>>
taskVars == <<ctxDone, tickerC, taskPc>>

\* ----------------------------------------------------------------- helpers
Min(a, b) == IF a < b THEN a ELSE b

Range(s) == {s[i] : i \in 1..Len(s)}

Occurrences(s, x) == Cardinality({i \in 1..Len(s) : s[i] = x})

\* delete(m, k) on a Go map modelled as a function with a finite domain
MapDelete(m, k) == [x \in (DOMAIN m) \ {k} |-> m[x]]

MapPut(m, k, v) == [x \in (DOMAIN m) \cup {k} |-> IF x = k THEN v ELSE m[x]]

EmptyMap == [x \in {} |-> 0]

\* Driver.Name(); d1 and d3 are two drivers that have the same name
Name(d) == IF d \in {"d1", "d3"} THEN "alpha" ELSE IF d = "d2" THEN "beta" ELSE ""

\* Session.Close() called once for every element of the sequence closes
CloseSessions(cc, closes) ==
    [s \in AllSessions |-> Min(CloseCap, cc[s] + Occurrences(closes, s))]

\* some enumeration of a finite set as a sequence (map iteration order)
RECURSIVE SetToSeq(_)
SetToSeq(S) ==
    IF S = {} THEN <<>>
    ELSE LET x == CHOOSE y \in S : TRUE IN <<x>> \o SetToSeq(S \ {x})

\* ---------------------------------------------------------------- registry
\* Registry.Detect: outcomes[i] is what drivers[i].Detect answers: "match" for
\* (true, nil), "nomatch" for (false, nil), else the error it returns. The result
\* has the driver and error returned, the number of Detect calls made (probed)
\* and the positions of the drivers called, in call order (log)
RECURSIVE DetectFrom(_, _, _)
DetectFrom(drivers, outcomes, i) ==
    IF i > Len(drivers)
    THEN [driver |-> NoDriver, err |-> ErrCodeDriverNotFound, probed |-> i - 1, log |-> <<>>]
    ELSE IF outcomes[i] \notin {"match", "nomatch"}
    THEN [driver |-> NoDriver, err |-> outcomes[i], probed |-> i, log |-> <<i>>]
    ELSE IF outcomes[i] = "match"
    THEN [driver |-> drivers[i], err |-> ErrNil, probed |-> i, log |-> <<i>>]
    ELSE LET r == DetectFrom(drivers, outcomes, i + 1) IN
         [r EXCEPT !.log = <<i>> \o r.log]

\* Detect that never calls the first registered driver
RegistryDetect_SkipFirst(drivers, outcomes) ==
    LET r == DetectFrom(drivers, outcomes, 2) IN
    [r EXCEPT !.probed = IF @ = 0 THEN 0 ELSE @ - 1]

\* Detect that goes on to the next driver when a driver's Detect fails
RegistryDetect_IgnoreErrors(drivers, outcomes) ==
    DetectFrom(drivers,
               [i \in DOMAIN outcomes |->
                   IF outcomes[i] = "match" THEN "match" ELSE "nomatch"], 1)

RegistryDetect(drivers, outcomes) == DetectFrom(drivers, outcomes, 1)

\* -------------------------------------------------------------- DevicePool
\* &DevicePool{...} as built by ConnectionPool.GetSession
NewDevicePool(device, maxIdle, maxOpen, idleTime) ==
    [device |-> device, idle |-> <<>>, active |-> {}, createdAt |-> EmptyMap,
     maxIdle |-> maxIdle, maxOpen |-> maxOpen, idleTime |-> idleTime]

FreePool == [device |-> NoDevice, idle |-> <<>>, active |-> {}, createdAt |-> EmptyMap,
             maxIdle |-> 0, maxOpen |-> 0, idleTime |-> 0]

\* getSession with the capacity test off by one (> for >=)
getSession_OffByOne(dp, openRes, fresh, t) ==
    IF Len(dp.idle) > 0
    THEN LET sess == dp.idle[Len(dp.idle)] IN
         [dp |-> [dp EXCEPT !.idle = SubSeq(dp.idle, 1, Len(dp.idle) - 1),
                            !.active = dp.active \cup {sess}],
          sess |-> sess, err |-> ErrNil, opened |-> FALSE]
    ELSE IF Cardinality(dp.active) > dp.maxOpen
    THEN [dp |-> dp, sess |-> NoSession, err |-> ErrCodeDeviceError, opened |-> FALSE]
    ELSE IF openRes # "ok"
    THEN [dp |-> dp, sess |-> NoSession, err |-> openRes, opened |-> TRUE]
    ELSE [dp |-> [dp EXCEPT !.active = dp.active \cup {fresh},
                            !.createdAt = MapPut(dp.createdAt, fresh, t)],
          sess |-> fresh, err |-> ErrNil, opened |-> TRUE]

\* getSession that hands out the last idle session without taking it off the list
getSession_KeepIdle(dp, openRes, fresh, t) ==
    IF Len(dp.idle) > 0
    THEN LET sess == dp.idle[Len(dp.idle)] IN
         [dp |-> [dp EXCEPT !.active = dp.active \cup {sess}],
          sess |-> sess, err |-> ErrNil, opened |-> FALSE]
    ELSE IF Cardinality(dp.active) >= dp.maxOpen
    THEN [dp |-> dp, sess |-> NoSession, err |-> ErrCodeDeviceError, opened |-> FALSE]
    ELSE IF openRes # "ok"
    THEN [dp |-> dp, sess |-> NoSession, err |-> openRes, opened |-> TRUE]
    ELSE [dp |-> [dp EXCEPT !.active = dp.active \cup {fresh},
                            !.createdAt = MapPut(dp.createdAt, fresh, t)],
          sess |-> fresh, err |-> ErrNil, opened |-> TRUE]

\* getSession that reuses the oldest entry of the idle list (FIFO)
getSession_FIFO(dp, openRes, fresh, t) ==
    IF Len(dp.idle) > 0
    THEN LET sess == dp.idle[1] IN
         [dp |-> [dp EXCEPT !.idle = Tail(dp.idle),
                            !.active = dp.active \cup {sess}],
          sess |-> sess, err |-> ErrNil, opened |-> FALSE]
    ELSE IF Cardinality(dp.active) >= dp.maxOpen
    THEN [dp |-> dp, sess |-> NoSession, err |-> ErrCodeDeviceError, opened |-> FALSE]
    ELSE IF openRes # "ok"
    THEN [dp |-> dp, sess |-> NoSession, err |-> openRes, opened |-> TRUE]
    ELSE [dp |-> [dp EXCEPT !.active = dp.active \cup {fresh},
                            !.createdAt = MapPut(dp.createdAt, fresh, t)],
          sess |-> fresh, err |-> ErrNil, opened |-> TRUE]

\* getSession that keeps a place in the active set for a session whose
\* Driver.Open failed
getSession_ReserveOnError(dp, openRes, fresh, t) ==
    IF Len(dp.idle) > 0
    THEN LET sess == dp.idle[Len(dp.idle)] IN
         [dp |-> [dp EXCEPT !.idle = SubSeq(dp.idle, 1, Len(dp.idle) - 1),
                            !.active = dp.active \cup {sess}],
          sess |-> sess, err |-> ErrNil, opened |-> FALSE]
    ELSE IF Cardinality(dp.active) >= dp.maxOpen
    THEN [dp |-> dp, sess |-> NoSession, err |-> ErrCodeDeviceError, opened |-> FALSE]
    ELSE IF openRes # "ok"
    THEN [dp |-> [dp EXCEPT !.active = dp.active \cup {fresh},
                            !.createdAt = MapPut(dp.createdAt, fresh, t)],
          sess |-> NoSession, err |-> openRes, opened |-> TRUE]
    ELSE [dp |-> [dp EXCEPT !.active = dp.active \cup {fresh},
                            !.createdAt = MapPut(dp.createdAt, fresh, t)],
          sess |-> fresh, err |-> ErrNil, opened |-> TRUE]

\* DevicePool.getSession. openRes is what Driver.Open answers if it is called
\* ("ok" or an error), fresh the session it then returns, t the time.
getSession(dp, openRes, fresh, t) ==
    IF Len(dp.idle) > 0
    THEN LET sess == dp.idle[Len(dp.idle)] IN
         [dp |-> [dp EXCEPT !.idle = SubSeq(dp.idle, 1, Len(dp.idle) - 1),
                            !.active = dp.active \cup {sess}],
          sess |-> sess, err |-> ErrNil, opened |-> FALSE]
    ELSE IF Cardinality(dp.active) >= dp.maxOpen
    THEN [dp |-> dp, sess |-> NoSession, err |-> ErrCodeDeviceError, opened |-> FALSE]
    ELSE IF openRes # "ok"
    THEN [dp |-> dp, sess |-> NoSession, err |-> openRes, opened |-> TRUE]
    ELSE [dp |-> [dp EXCEPT !.active = dp.active \cup {fresh},
                            !.createdAt = MapPut(dp.createdAt, fresh, t)],
          sess |-> fresh, err |-> ErrNil, opened |-> TRUE]

\* returnSession with the idle bound off by one (<= for <)
returnSession_NoIdleBound(dp, sess) ==
    LET act == dp.active \ {sess} IN
    IF Len(dp.idle) <= dp.maxIdle
    THEN [dp |-> [dp EXCEPT !.active = act, !.idle = Append(dp.idle, sess)],
          closes |-> <<>>]
    ELSE [dp |-> [dp EXCEPT !.active = act,
                            !.createdAt = MapDelete(dp.createdAt, sess)],
          closes |-> <<sess>>]

\* returnSession that never keeps the session for reuse
returnSession_AlwaysClose(dp, sess) ==
    [dp |-> [dp EXCEPT !.active = dp.active \ {sess},
                       !.createdAt = MapDelete(dp.createdAt, sess)],
     closes |-> <<sess>>]

\* returnSession that forgets delete(dp.createdAt, sess) on overflow
returnSession_KeepTimestamp(dp, sess) ==
    LET act == dp.active \ {sess} IN
    IF Len(dp.idle) < dp.maxIdle
    THEN [dp |-> [dp EXCEPT !.active = act, !.idle = Append(dp.idle, sess)],
          closes |-> <<>>]
    ELSE [dp |-> [dp EXCEPT !.active = act], closes |-> <<sess>>]

\* returnSession that ignores a session that is not in the active set
returnSession_CheckActive(dp, sess) ==
    IF sess \notin dp.active THEN [dp |-> dp, closes |-> <<>>]
    ELSE IF Len(dp.idle) < dp.maxIdle
    THEN [dp |-> [dp EXCEPT !.active = dp.active \ {sess},
                            !.idle = Append(dp.idle, sess)],
          closes |-> <<>>]
    ELSE [dp |-> [dp EXCEPT !.active = dp.active \ {sess},
                            !.createdAt = MapDelete(dp.createdAt, sess)],
          closes |-> <<sess>>]

\* DevicePool.returnSession
returnSession(dp, sess) ==
    LET act == dp.active \ {sess} IN
    IF Len(dp.idle) < dp.maxIdle
    THEN [dp |-> [dp EXCEPT !.active = act, !.idle = Append(dp.idle, sess)],
          closes |-> <<>>]
    ELSE [dp |-> [dp EXCEPT !.active = act,
                            !.createdAt = MapDelete(dp.createdAt, sess)],
          closes |-> <<sess>>]

\* DevicePool.cleanExpired, the loop over dp.idle from position i
RECURSIVE cleanFrom(_, _, _, _, _, _)
cleanFrom(dp, t, i, validIdle, createdAt, closes) ==
    IF i > Len(dp.idle)
    THEN [dp |-> [dp EXCEPT !.idle = validIdle, !.createdAt = createdAt],
          closes |-> closes]
    ELSE LET sess == dp.idle[i] IN
         IF sess \in DOMAIN createdAt
         THEN IF t - createdAt[sess] < dp.idleTime
              THEN cleanFrom(dp, t, i + 1, Append(validIdle, sess), createdAt, closes)
              ELSE cleanFrom(dp, t, i + 1, validIdle, MapDelete(createdAt, sess),
                             Append(closes, sess))
         ELSE cleanFrom(dp, t, i + 1, validIdle, createdAt, Append(closes, sess))

\* cleanExpired that also closes the sessions that are checked out
cleanExpired_SweepActive(dp, t) ==
    LET r == cleanFrom(dp, t, 1, <<>>, dp.createdAt, <<>>) IN
    [dp |-> [r.dp EXCEPT !.active = {}], closes |-> r.closes \o SetToSeq(dp.active)]

\* cleanExpired that keeps a session whose age equals idleTime (<= for <)
cleanExpired_AgeInclusive(dp, t) == cleanFrom(dp, t - 1, 1, <<>>, dp.createdAt, <<>>)

\* cleanExpired that leaves the creation time of a session it closes in the map
cleanExpired_LeakStamp(dp, t) ==
    LET r == cleanFrom(dp, t, 1, <<>>, dp.createdAt, <<>>) IN
    [dp |-> [r.dp EXCEPT !.createdAt = dp.createdAt], closes |-> r.closes]

\* cleanExpired that keeps an idle session that has no creation time
cleanExpired_KeepUnstamped(dp, t) ==
    LET r == cleanFrom(dp, t, 1, <<>>, dp.createdAt, <<>>)
        stamped(s) == s \in DOMAIN dp.createdAt IN
    [dp |-> [r.dp EXCEPT !.idle = SelectSeq(dp.idle,
                            LAMBDA s : ~stamped(s) \/ s \in Range(r.dp.idle))],
     closes |-> SelectSeq(r.closes, stamped)]

cleanExpired(dp, t) == cleanFrom(dp, t, 1, <<>>, dp.createdAt, <<>>)

\* closeAll that skips the sessions that are checked out
closeAll_IdleOnly(dp) ==
    [dp |-> [dp EXCEPT !.idle = <<>>], closes |-> dp.idle]

\* DevicePool.closeAll
closeAll(dp) ==
    [dp |-> [dp EXCEPT !.idle = <<>>, !.active = {}, !.createdAt = EmptyMap],
     closes |-> dp.idle \o SetToSeq(dp.active)]

\* ------------------------------------------------------------ pool client
Device(id, ep, d) == [ID |-> id, Endpoint |-> ep, Driver |-> d, DriverName |-> Name(d)]

\* one call of the client: what it passed, what it got, whether Driver.Open
\* ran, and whether the sub-pool held no session when the call started (for
\* Close: whether the map held no sub-pool)
Call(op, id, sess, err, opened, wasEmpty) ==
    [op |-> op, id |-> id, sess |-> sess, err |-> err, opened |-> opened,
     wasEmpty |-> wasEmpty]

NoCall == Call("none", "", NoSession, ErrNil, FALSE, FALSE)

IsEmpty(dp) == Len(dp.idle) = 0 /\ dp.active = {}

\* ------------------------------------------------ registry / table client
\* before the first call of the client
NoRegCall == [op |-> "none"]

\* the drivers, endpoints and Detect answers the client uses
RegDrivers == {"d1", "d2"}
RegEndpoints == {"e1", "e2"}
RegOutcomes == DetectOutcomes \cup {"CONNECTION_FAILED"}

\* ------------------------------------------------------------------ locks
Goroutines == {"g1", "g2", "g3"}

\* no goroutine holds p.mu (w: the writer, r: the readers), any dp.mu, the
\* write lock of Manager.mu (m) or a read lock of Registry.mu (rr)
NoLocks == [w |-> "", r |-> {}, d |-> [ref \in PoolRefs |-> ""], m |-> "", rr |-> {}]

\* a goroutine that runs no pool call: op is the call, pc its position, id its
\* id argument, pool the sub-pool it works on, todo the sub-pools its loop has
\* still to visit, sess the session it got from GetSession and has not returned
Idle == [op |-> "none", pc |-> "idle", id |-> "", pool |-> NoPool, todo |-> {},
         sess |-> NoSession]

\* the goroutines that call GetSession / ReturnSession, and the one that calls
\* Stats, CleanUp and Close
Users == {"g1", "g3"}
Keepers == {"g2"}

\* ------------------------------------------------------------------- state
\* what one WithSession call did: the error it returned (res), the error of
\* the session acquisition (acqErr), the session obtained (got), the calls of
\* fn (fnCalls) and the error fn returned (fnErr), the calls of ReturnSession
\* (retCalls) and the session passed to it (returned)
NoObs == [res |-> "none", acqErr |-> "none", got |-> NoSession, fnCalls |-> 0,
          fnErr |-> "none", retCalls |-> 0, returned |-> NoSession]

InitManager ==
    /\ dev = [id \in IDs |-> NoDevice]
    /\ pMaxIdle = DefaultMaxIdle
    /\ pMaxOpen = DefaultMaxOpen
    /\ pIdleTime = DefaultIdleTime
    /\ pools = [id \in IDs |-> NoPool]
    /\ heap = [r \in PoolRefs |-> FreePool]
    /\ nsess = 0
    /\ sessOrigin = [s \in Sessions |-> NoDevice]
    /\ openedAt = [s \in Sessions |-> 0]
    /\ closeCount = [s \in AllSessions |-> 0]
    /\ now = 0
    /\ pc = [t \in Threads |-> "idle"]
    /\ tid = [t \in Threads |-> ""]
    /\ tdev = [t \in Threads |-> NoDevice]
    /\ tpool = [t \in Threads |-> NoPool]
    /\ tsess = [t \in Threads |-> NoSession]
    /\ obs = [t \in Threads |-> NoObs]
    /\ cuPending = {}
    /\ last = NoCall
    /\ chain = <<>>
    /\ held = [s \in AllSessions |-> ""]
    /\ misuse = 0
    /\ swept = <<>>
    /\ shut = FALSE
    /\ rcall = NoRegCall
    /\ locks = NoLocks
    /\ lk = [g \in Goroutines |-> Idle]
    /\ ctxDone = FALSE
    /\ tickerC = 0
    /\ taskPc = "none"
    /\ listed = <<>>

\* a Manager over a Registry with one driver registered
Init == reg = <<"d1">> /\ InitManager

\* ------------------------------------------------------------ the Go heap
\* the DevicePool objects some goroutine or the map still refers to
Reach == ({pools[id] : id \in IDs} \cup {tpool[t] : t \in Threads} \cup cuPending)
         \ {NoPool}

\* garbage collection: a DevicePool nothing refers to is gone
Collect(h, reach) == [r \in PoolRefs |-> IF r \in reach THEN h[r] ELSE FreePool]

\* the reference a newly allocated DevicePool gets
FreshPool == CHOOSE r \in PoolRefs \ Reach : \A q \in PoolRefs \ Reach : r <= q

\* ----------------------------------------------------------------- Manager
\* Manager.AddOrDetect, lines 43-49: the driver to store, or the error to
\* return; Registry.Detect is called only for a nil driver
Resolve(d, outcomes) ==
    IF d = NoDriver THEN RegistryDetect(reg, outcomes)
    ELSE [driver |-> d, err |-> ErrNil, probed |-> 0, log |-> <<>>]

\* AddOrDetect that keeps the endpoint of a record the id already has
AddOrDetect_Merge(id, ep, d, outcomes) ==
    LET det == Resolve(d, outcomes) IN
    /\ dev' = IF det.err # ErrNil THEN dev
              ELSE [dev EXCEPT ![id] =
                      [ID |-> id,
                       Endpoint |-> IF dev[id] = NoDevice THEN ep ELSE dev[id].Endpoint,
                       Driver |-> det.driver, DriverName |-> Name(det.driver)]]
    /\ UNCHANGED <<reg, shut, lockVars, taskVars, listed, limitVars, poolVars, now, threadVars, cuPending, clientVars>>

\* AddOrDetect that drops the record of the id when detection fails
AddOrDetect_DropOnFailure(id, ep, d, outcomes) ==
    LET det == Resolve(d, outcomes) IN
    /\ dev' = IF det.err # ErrNil THEN [dev EXCEPT ![id] = NoDevice]
              ELSE [dev EXCEPT ![id] = [ID |-> id, Endpoint |-> ep, Driver |-> det.driver,
                                        DriverName |-> Name(det.driver)]]
    /\ UNCHANGED <<reg, shut, lockVars, taskVars, listed, limitVars, poolVars, now, threadVars, cuPending, clientVars>>

\* AddOrDetect that takes the name of the driver the id had before
AddOrDetect_StaleName(id, ep, d, outcomes) ==
    LET det == Resolve(d, outcomes) IN
    /\ dev' = IF det.err # ErrNil THEN dev
              ELSE [dev EXCEPT ![id] =
                      [ID |-> id, Endpoint |-> ep, Driver |-> det.driver,
                       DriverName |-> IF dev[id] = NoDevice THEN Name(det.driver)
                                      ELSE dev[id].DriverName]]
    /\ UNCHANGED <<reg, shut, lockVars, taskVars, listed, limitVars, poolVars, now, threadVars, cuPending, clientVars>>

\* Manager.AddOrDetect(ctx, id, ep, d); d = NoDriver is the nil driver, and
\* outcomes[i] is what the i-th registered driver's Detect answers
AddOrDetect(id, ep, d, outcomes) ==
    LET det == Resolve(d, outcomes) IN
    /\ dev' = IF det.err # ErrNil THEN dev
              ELSE [dev EXCEPT ![id] = [ID |-> id, Endpoint |-> ep, Driver |-> det.driver,
                                        DriverName |-> Name(det.driver)]]
    /\ UNCHANGED <<reg, shut, lockVars, taskVars, listed, limitVars, poolVars, now, threadVars, cuPending, clientVars>>

\* WithSession without the d == nil test
WithSessionLookup_NoNilTest(t, id) ==
    /\ pc[t] \in {"idle", "done"}
    /\ shut' = FALSE
    /\ tid' = [tid EXCEPT ![t] = id]
    /\ obs' = [obs EXCEPT ![t] = [NoObs EXCEPT !.res = "pending"]]
    /\ tdev' = [tdev EXCEPT ![t] = dev[id]]
    /\ pc' = [pc EXCEPT ![t] = "get"]
    /\ UNCHANGED <<reg, rcall, lockVars, taskVars, listed, dev, limitVars, poolVars, now, tpool, tsess, cuPending, clientVars>>

\* Manager.WithSession, lines 67-72: the device lookup
WithSessionLookup(t, id) ==
    /\ pc[t] \in {"idle", "done"}
    /\ shut' = FALSE
    /\ tid' = [tid EXCEPT ![t] = id]
    /\ IF dev[id] = NoDevice
       THEN /\ obs' = [obs EXCEPT ![t] = [NoObs EXCEPT !.res = ErrNotFound]]
            /\ pc' = [pc EXCEPT ![t] = "done"]
            /\ tdev' = [tdev EXCEPT ![t] = NoDevice]
       ELSE /\ obs' = [obs EXCEPT ![t] = [NoObs EXCEPT !.res = "pending"]]
            /\ tdev' = [tdev EXCEPT ![t] = dev[id]]
            /\ pc' = [pc EXCEPT ![t] = "get"]
    /\ UNCHANGED <<reg, rcall, lockVars, taskVars, listed, dev, limitVars, poolVars, now, tpool, tsess, cuPending, clientVars>>

\* ConnectionPool.GetSession, lines 51-64: find or create the sub-pool
GetSessionMap(t) ==
    /\ pc[t] = "get"
    /\ IF pools[tid[t]] # NoPool
       THEN /\ tpool' = [tpool EXCEPT ![t] = pools[tid[t]]]
            /\ UNCHANGED <<pools, heap>>
       ELSE /\ PoolRefs \ Reach # {}
            /\ heap' = [heap EXCEPT ![FreshPool] =
                            NewDevicePool(tdev[t], pMaxIdle, pMaxOpen, pIdleTime)]
            /\ pools' = [pools EXCEPT ![tid[t]] = FreshPool]
            /\ tpool' = [tpool EXCEPT ![t] = FreshPool]
    /\ pc' = [pc EXCEPT ![t] = "getSess"]
    /\ UNCHANGED <<reg, shut, rcall, lockVars, taskVars, listed, dev, limitVars, nsess, sessOrigin, openedAt, closeCount, now, tid, tdev,
                   tsess, obs, cuPending, clientVars>>

\* ConnectionPool.GetSession line 66 and Manager.WithSession lines 74-77
GetSessionPool(t, openRes) ==
    /\ pc[t] = "getSess"
    /\ openRes = "ok" => nsess < MaxSessions
    /\ LET r == getSession(heap[tpool[t]], openRes, nsess + 1, now)
           made == r.opened /\ r.err = ErrNil IN
       /\ nsess' = IF made THEN nsess + 1 ELSE nsess
       /\ sessOrigin' = IF made
                        THEN [sessOrigin EXCEPT ![nsess + 1] = heap[tpool[t]].device]
                        ELSE sessOrigin
       /\ openedAt' = IF made THEN [openedAt EXCEPT ![nsess + 1] = now] ELSE openedAt
       /\ tsess' = [tsess EXCEPT ![t] = r.sess]
       /\ tpool' = [tpool EXCEPT ![t] = NoPool]
       /\ IF r.err # ErrNil
          THEN /\ pc' = [pc EXCEPT ![t] = "done"]
               /\ obs' = [obs EXCEPT ![t].res = r.err, ![t].acqErr = r.err]
          ELSE /\ pc' = [pc EXCEPT ![t] = "fn"]
               /\ obs' = [obs EXCEPT ![t].acqErr = ErrNil, ![t].got = r.sess]
       /\ UNCHANGED <<pools, cuPending>>
       /\ heap' = Collect([heap EXCEPT ![tpool[t]] = r.dp], Reach')
    /\ UNCHANGED <<reg, shut, rcall, lockVars, taskVars, listed, dev, limitVars, closeCount, now, tid, tdev, clientVars>>

\* WithSession that returns fn's error at once, before the session is returned
Callback_SkipReturnOnError(t, e) ==
    /\ pc[t] = "fn"
    /\ IF e = ErrNil
       THEN /\ obs' = [obs EXCEPT ![t].fnCalls = @ + 1, ![t].fnErr = e]
            /\ pc' = [pc EXCEPT ![t] = "ret"]
            /\ UNCHANGED tsess
       ELSE /\ obs' = [obs EXCEPT ![t].fnCalls = @ + 1, ![t].fnErr = e, ![t].res = e]
            /\ pc' = [pc EXCEPT ![t] = "done"]
            /\ tsess' = [tsess EXCEPT ![t] = NoSession]
    /\ UNCHANGED <<reg, shut, rcall, lockVars, taskVars, listed, dev, limitVars, poolVars, now, tid, tdev, tpool, cuPending,
                   clientVars>>

\* Manager.WithSession line 82: the callback runs and returns e
Callback(t, e) ==
    /\ pc[t] = "fn"
    /\ obs' = [obs EXCEPT ![t].fnCalls = @ + 1, ![t].fnErr = e]
    /\ pc' = [pc EXCEPT ![t] = "ret"]
    /\ UNCHANGED <<reg, shut, rcall, lockVars, taskVars, listed, dev, limitVars, poolVars, now, tid, tdev, tpool, tsess,
                   cuPending, clientVars>>

\* the deferred ConnectionPool.ReturnSession, lines 71-80: the map lookup
ReturnSessionMap(t) ==
    /\ pc[t] = "ret"
    /\ IF pools[tid[t]] # NoPool
       THEN /\ tpool' = [tpool EXCEPT ![t] = pools[tid[t]]]
            /\ pc' = [pc EXCEPT ![t] = "retSess"]
            /\ obs' = [obs EXCEPT ![t].retCalls = @ + 1, ![t].returned = tsess[t]]
            /\ UNCHANGED <<closeCount, tsess>>
       ELSE /\ closeCount' = CloseSessions(closeCount, <<tsess[t]>>)
            /\ tsess' = [tsess EXCEPT ![t] = NoSession]
            /\ pc' = [pc EXCEPT ![t] = "done"]
            /\ obs' = [obs EXCEPT ![t].retCalls = @ + 1, ![t].returned = tsess[t],
                                  ![t].res = obs[t].fnErr]
            /\ UNCHANGED tpool
    /\ UNCHANGED <<reg, shut, rcall, lockVars, taskVars, listed, dev, limitVars, pools, heap, nsess, sessOrigin, openedAt, now,
                   tid, tdev, cuPending, clientVars>>

\* WithSession that drops fn's error once the session is back in the pool
ReturnSessionPool_DropError(t) ==
    /\ pc[t] = "retSess"
    /\ LET r == returnSession(heap[tpool[t]], tsess[t]) IN
       /\ closeCount' = CloseSessions(closeCount, r.closes)
       /\ tsess' = [tsess EXCEPT ![t] = NoSession]
       /\ tpool' = [tpool EXCEPT ![t] = NoPool]
       /\ pc' = [pc EXCEPT ![t] = "done"]
       /\ obs' = [obs EXCEPT ![t].res = ErrNil]
       /\ UNCHANGED <<pools, cuPending>>
       /\ heap' = Collect([heap EXCEPT ![tpool[t]] = r.dp], Reach')
    /\ UNCHANGED <<reg, shut, rcall, lockVars, taskVars, listed, dev, limitVars, nsess, sessOrigin, openedAt, now, tid, tdev, clientVars>>

\* ConnectionPool.ReturnSession line 76, then WithSession returns fn's error
ReturnSessionPool(t) ==
    /\ pc[t] = "retSess"
    /\ LET r == returnSession(heap[tpool[t]], tsess[t]) IN
       /\ closeCount' = CloseSessions(closeCount, r.closes)
       /\ tsess' = [tsess EXCEPT ![t] = NoSession]
       /\ tpool' = [tpool EXCEPT ![t] = NoPool]
       /\ pc' = [pc EXCEPT ![t] = "done"]
       /\ obs' = [obs EXCEPT ![t].res = obs[t].fnErr]
       /\ UNCHANGED <<pools, cuPending>>
       /\ heap' = Collect([heap EXCEPT ![tpool[t]] = r.dp], Reach')
    /\ UNCHANGED <<reg, shut, rcall, lockVars, taskVars, listed, dev, limitVars, nsess, sessOrigin, openedAt, now, tid, tdev, clientVars>>

\* ---------------------------------------------------------- ConnectionPool
\* ConnectionPool.SetLimits
SetLimits(maxIdle, maxOpen, idleTime) ==
    /\ pMaxIdle' = maxIdle
    /\ pMaxOpen' = maxOpen
    /\ pIdleTime' = idleTime
    /\ UNCHANGED <<reg, shut, rcall, lockVars, taskVars, listed, dev, poolVars, now, threadVars, cuPending, clientVars>>

\* ConnectionPool.CleanUp, lines 85-90: snapshot the sub-pools of the map
CleanUpSnapshot ==
    /\ cuPending = {}
    /\ cuPending' = {pools[id] : id \in IDs} \ {NoPool}
    /\ UNCHANGED <<reg, shut, rcall, lockVars, taskVars, listed, dev, limitVars, poolVars, now, threadVars, clientVars>>

\* ConnectionPool.CleanUp, lines 92-94: one pool.cleanExpired() of the loop
CleanUpPool(ref) ==
    /\ ref \in cuPending
    /\ LET r == cleanExpired(heap[ref], now) IN
       /\ closeCount' = CloseSessions(closeCount, r.closes)
       /\ cuPending' = cuPending \ {ref}
       /\ UNCHANGED <<pools, tpool>>
       /\ heap' = Collect([heap EXCEPT ![ref] = r.dp], Reach')
    /\ UNCHANGED <<reg, shut, rcall, lockVars, taskVars, listed, dev, limitVars, nsess, sessOrigin, openedAt, now, pc, tid, tdev, tsess, obs,
                   clientVars>>

\* closeAll applied to every sub-pool of the map
RECURSIVE CloseMapped(_, _)
CloseMapped(h, refs) ==
    IF refs = {} THEN [heap |-> h, closes |-> <<>>]
    ELSE LET ref == CHOOSE r \in refs : TRUE
             one == closeAll(h[ref])
             rest == CloseMapped([h EXCEPT ![ref] = one.dp], refs \ {ref}) IN
         [heap |-> rest.heap, closes |-> one.closes \o rest.closes]

\* Close that closes the sessions but leaves the map and the active sets alone
Close_KeepActive ==
    /\ LET r == CloseMapped(heap, {pools[id] : id \in IDs} \ {NoPool}) IN
       /\ closeCount' = CloseSessions(closeCount, r.closes)
       /\ pools' = pools
       /\ shut' = TRUE
       /\ UNCHANGED <<tpool, cuPending>>
       /\ heap' = [ref \in PoolRefs |-> [heap[ref] EXCEPT !.idle = r.heap[ref].idle]]
    /\ UNCHANGED <<reg, rcall, lockVars, taskVars, listed, dev, limitVars, nsess, sessOrigin, openedAt, now, pc, tid, tdev, tsess, obs,
                   clientVars>>

\* ConnectionPool.Close (Manager.Close). It holds p.mu from start to end, so no
\* map step interleaves; the steps other callers take on a sub-pool they already
\* hold commute with the closeAll of every other sub-pool.
Close ==
    /\ LET r == CloseMapped(heap, {pools[id] : id \in IDs} \ {NoPool}) IN
       /\ closeCount' = CloseSessions(closeCount, r.closes)
       /\ pools' = [id \in IDs |-> NoPool]
       /\ shut' = TRUE
       /\ UNCHANGED <<tpool, cuPending>>
       /\ heap' = Collect(r.heap, Reach')
    /\ UNCHANGED <<reg, rcall, lockVars, taskVars, listed, dev, limitVars, nsess, sessOrigin, openedAt, now, pc, tid, tdev, tsess, obs,
                   clientVars>>

\* ConnectionPool.Stats(): what it returns in the current state
Stats ==
    [id \in {i \in IDs : pools[i] # NoPool} |->
        [ActiveConnections |-> Cardinality(heap[pools[id]].active),
         IdleConnections |-> Len(heap[pools[id]].idle),
         MaxOpen |-> heap[pools[id]].maxOpen,
         MaxIdle |-> heap[pools[id]].maxIdle]]

\* a Stats() / GetPoolStats() call: it only reads
StatsCall ==
    /\ Stats \in [{i \in IDs : pools[i] # NoPool} -> [ActiveConnections : Nat,
                     IdleConnections : Nat, MaxOpen : Nat, MaxIdle : Nat]]
    /\ UNCHANGED vars

Next ==
    \/ \E id \in RegIDs, ep \in Endpoints, d \in Drivers :
          AddOrDetect(id, ep, d, <<>>) /\ UNCHANGED rcall
    \/ \E id \in RegIDs, ep \in Endpoints, outcomes \in [1..Len(reg) -> DetectOutcomes] :
          AddOrDetect(id, ep, NoDriver, outcomes) /\ UNCHANGED rcall
    \/ \E t \in Threads, id \in IDs : WithSessionLookup(t, id)
    \/ \E t \in Threads : GetSessionMap(t)
    \/ \E t \in Threads, openRes \in {"ok"} \cup OpenErrors : GetSessionPool(t, openRes)
    \/ \E t \in Threads, e \in FnResults : Callback(t, e)
    \/ \E t \in Threads : ReturnSessionMap(t)
    \/ \E t \in Threads : ReturnSessionPool(t)
    \/ \E mi \in SpecIdleValues, mo \in LimitOpenValues, it \in SpecTimeValues :
          SetLimits(mi, mo, it)
    \/ CleanUpSnapshot
    \/ \E ref \in PoolRefs : CleanUpPool(ref)
    \/ Close
    \/ StatsCall

Spec == Init /\ [][Next]_vars

\* ------------------------------------------ the pool API, called directly
\* chain keeps the calls of a run "GetSession(id) = s, ReturnSession(id, s),
\* GetSession(id)" with no other call of the pool in between
ChainGet(c) ==
    IF Len(chain) = 2 /\ chain[1].id = c.id THEN Append(chain, c)
    ELSE IF c.err = ErrNil THEN <<c>>
    ELSE <<>>

ChainReturn(c) ==
    IF /\ Len(chain) \in {1, 3}
       /\ last.op = "Get" /\ last.err = ErrNil /\ last.id = c.id /\ last.sess = c.sess
    THEN <<last, c>>
    ELSE <<>>

\* the sub-pool of id, or an empty one when the map has none
PoolOf(id) == IF pools[id] = NoPool THEN FreePool ELSE heap[pools[id]]

\* ConnectionPool.GetSession(ctx, id, device), the whole call
PoolGetSession(id, device, openRes) ==
    /\ openRes = "ok" => nsess < MaxSessions
    /\ pools[id] = NoPool => PoolRefs \ Reach # {}
    /\ LET ref == IF pools[id] # NoPool THEN pools[id] ELSE FreshPool
           dp == IF pools[id] # NoPool THEN heap[ref]
                 ELSE NewDevicePool(device, pMaxIdle, pMaxOpen, pIdleTime)
           r == getSession(dp, openRes, nsess + 1, now)
           made == r.opened /\ r.err = ErrNil IN
       /\ pools' = [pools EXCEPT ![id] = ref]
       /\ heap' = [heap EXCEPT ![ref] = r.dp]
       /\ nsess' = IF made THEN nsess + 1 ELSE nsess
       /\ sessOrigin' = IF made THEN [sessOrigin EXCEPT ![nsess + 1] = dp.device]
                        ELSE sessOrigin
       /\ openedAt' = IF made THEN [openedAt EXCEPT ![nsess + 1] = now] ELSE openedAt
       /\ last' = Call("Get", id, r.sess, r.err, r.opened, IsEmpty(dp))
       /\ chain' = ChainGet(last')
       /\ swept' = <<>>
       /\ held' = IF r.err = ErrNil THEN [held EXCEPT ![r.sess] = id] ELSE held
    /\ UNCHANGED <<reg, shut, rcall, lockVars, taskVars, listed, dev, limitVars, closeCount, now, threadVars, cuPending, misuse>>

\* ReturnSession that makes a sub-pool for an id that has none and keeps the
\* session there
PoolReturnSession_Repool(id, sess) ==
    /\ held[sess] # id => misuse < MaxMisuse
    /\ misuse' = IF held[sess] # id THEN misuse + 1 ELSE misuse
    /\ held' = [held EXCEPT ![sess] = ""]
    /\ IF pools[id] # NoPool
       THEN LET r == returnSession(heap[pools[id]], sess) IN
            /\ heap' = [heap EXCEPT ![pools[id]] = r.dp]
            /\ closeCount' = CloseSessions(closeCount, r.closes)
            /\ UNCHANGED pools
       ELSE /\ PoolRefs \ Reach # {}
            /\ pools' = [pools EXCEPT ![id] = FreshPool]
            /\ heap' = [heap EXCEPT ![FreshPool] =
                          [NewDevicePool(NoDevice, pMaxIdle, pMaxOpen, pIdleTime)
                              EXCEPT !.idle = <<sess>>]]
            /\ UNCHANGED closeCount
    /\ last' = Call("Return", id, sess, ErrNil, FALSE, IsEmpty(PoolOf(id)))
    /\ chain' = ChainReturn(last')
    /\ swept' = <<>>
    /\ UNCHANGED <<reg, shut, rcall, lockVars, taskVars, listed, dev, limitVars, nsess, sessOrigin, openedAt, now, threadVars,
                   cuPending>>

\* ConnectionPool.ReturnSession(id, sess), the whole call
PoolReturnSession(id, sess) ==
    /\ held[sess] # id => misuse < MaxMisuse
    /\ misuse' = IF held[sess] # id THEN misuse + 1 ELSE misuse
    /\ held' = [held EXCEPT ![sess] = ""]
    /\ IF pools[id] # NoPool
       THEN LET r == returnSession(heap[pools[id]], sess) IN
            /\ heap' = [heap EXCEPT ![pools[id]] = r.dp]
            /\ closeCount' = CloseSessions(closeCount, r.closes)
       ELSE /\ closeCount' = CloseSessions(closeCount, <<sess>>)
            /\ UNCHANGED heap
    /\ last' = Call("Return", id, sess, ErrNil, FALSE, IsEmpty(PoolOf(id)))
    /\ chain' = ChainReturn(last')
    /\ swept' = <<>>
    /\ UNCHANGED <<reg, shut, rcall, lockVars, taskVars, listed, dev, limitVars, pools, nsess, sessOrigin, openedAt, now, threadVars,
                   cuPending>>

\* cleanExpired applied to every sub-pool of the snapshot
RECURSIVE CleanMapped(_, _, _)
CleanMapped(h, refs, t) ==
    IF refs = {} THEN [heap |-> h, closes |-> <<>>]
    ELSE LET ref == CHOOSE r \in refs : TRUE
             one == cleanExpired(h[ref], t)
             rest == CleanMapped([h EXCEPT ![ref] = one.dp], refs \ {ref}, t) IN
         [heap |-> rest.heap, closes |-> one.closes \o rest.closes]

\* ConnectionPool.CleanUp(), the whole call
PoolCleanUp ==
    /\ LET r == CleanMapped(heap, {pools[id] : id \in IDs} \ {NoPool}, now) IN
       /\ heap' = r.heap
       /\ closeCount' = CloseSessions(closeCount, r.closes)
       /\ swept' = r.closes
    /\ last' = Call("CleanUp", "", NoSession, ErrNil, FALSE, FALSE)
    /\ chain' = <<>>
    /\ UNCHANGED <<reg, shut, rcall, lockVars, taskVars, listed, dev, limitVars, pools, nsess, sessOrigin, openedAt, now, threadVars,
                   cuPending, held, misuse>>

\* Close that empties the sub-pools but leaves them in the map
PoolClose_KeepMap ==
    /\ LET r == CloseMapped(heap, {pools[id] : id \in IDs} \ {NoPool}) IN
       /\ closeCount' = CloseSessions(closeCount, r.closes)
       /\ pools' = pools
       /\ heap' = r.heap
    /\ last' = Call("Close", "", NoSession, ErrNil, FALSE,
                    \A id \in IDs : pools[id] = NoPool)
    /\ chain' = <<>>
    /\ swept' = <<>>
    /\ UNCHANGED <<reg, shut, rcall, lockVars, taskVars, listed, dev, limitVars, nsess, sessOrigin, openedAt, now, threadVars, cuPending,
                   held, misuse>>

\* ConnectionPool.Close(), the whole call (Manager.Close calls it and returns nil)
PoolClose ==
    /\ LET r == CloseMapped(heap, {pools[id] : id \in IDs} \ {NoPool}) IN
       /\ closeCount' = CloseSessions(closeCount, r.closes)
       /\ pools' = [id \in IDs |-> NoPool]
       /\ heap' = Collect(r.heap, {})
    /\ last' = Call("Close", "", NoSession, ErrNil, FALSE,
                    \A id \in IDs : pools[id] = NoPool)
    /\ chain' = <<>>
    /\ swept' = <<>>
    /\ UNCHANGED <<reg, shut, rcall, lockVars, taskVars, listed, dev, limitVars, nsess, sessOrigin, openedAt, now, threadVars, cuPending,
                   held, misuse>>

\* SetLimits that also writes the new limits into the sub-pools that exist
PoolSetLimits_Propagate(maxIdle, maxOpen, idleTime) ==
    /\ pMaxIdle' = maxIdle
    /\ pMaxOpen' = maxOpen
    /\ pIdleTime' = idleTime
    /\ heap' = [r \in PoolRefs |->
                  IF r \in {pools[id] : id \in IDs}
                  THEN [heap[r] EXCEPT !.maxIdle = maxIdle, !.maxOpen = maxOpen,
                                       !.idleTime = idleTime]
                  ELSE heap[r]]
    /\ last' = Call("SetLimits", "", NoSession, ErrNil, FALSE, FALSE)
    /\ chain' = <<>>
    /\ swept' = <<>>
    /\ UNCHANGED <<reg, shut, rcall, lockVars, taskVars, listed, dev, pools, nsess, sessOrigin, openedAt, closeCount, now, threadVars, cuPending, held, misuse>>

\* ConnectionPool.SetLimits, the whole call
PoolSetLimits(maxIdle, maxOpen, idleTime) ==
    /\ pMaxIdle' = maxIdle
    /\ pMaxOpen' = maxOpen
    /\ pIdleTime' = idleTime
    /\ last' = Call("SetLimits", "", NoSession, ErrNil, FALSE, FALSE)
    /\ chain' = <<>>
    /\ swept' = <<>>
    /\ UNCHANGED <<reg, shut, rcall, lockVars, taskVars, listed, dev, poolVars, now, threadVars, cuPending, held, misuse>>

\* time passes between two calls of the client
PoolTick ==
    /\ now < MaxTime
    /\ now' = now + 1
    /\ UNCHANGED <<reg, shut, rcall, lockVars, taskVars, listed, dev, limitVars, poolVars, threadVars, cuPending, clientVars>>

PoolNext ==
    \/ \E id \in RegIDs, ep \in Endpoints, d \in Drivers, openRes \in {"ok"} \cup OpenErrors :
          PoolGetSession(id, Device(id, ep, d), openRes)
    \/ \E id \in IDs, sess \in (1..nsess) \cup {ForeignSession} : PoolReturnSession(id, sess)
    \/ PoolCleanUp
    \/ PoolClose
    \/ \E mi \in LimitIdleValues, mo \in LimitOpenValues, it \in LimitTimeValues :
          PoolSetLimits(mi, mo, it)
    \/ PoolTick

PoolSpec == Init /\ [][PoolNext]_vars

\* ----------------------------------- the cleanup task and a pool client
\* the limits the client sets: two sessions of a sub-pool can be open at once,
\* one can be idle, and an idle session expires after one unit of time
TaskMaxIdle == 1
TaskMaxOpen == 2
TaskIdleTime == 1

\* Manager.StartCleanup lines 110-111: the ticker is made, the goroutine started
StartCleanup ==
    /\ taskPc = "none"
    /\ taskPc' = "select"
    /\ tickerC' = 0
    /\ UNCHANGED <<reg, shut, rcall, lockVars, listed, ctxDone, dev, limitVars, poolVars, now,
                   threadVars, cuPending, clientVars>>

\* the ticker fires: the tick waits in ticker.C, which holds one tick; a tick
\* that finds one waiting is dropped. ticker.Stop() (line 112) ends it
TickerFire ==
    /\ taskPc = "select"
    /\ tickerC' = 1
    /\ UNCHANGED <<reg, shut, rcall, lockVars, listed, ctxDone, taskPc, dev, limitVars, poolVars,
                   now, threadVars, cuPending, clientVars>>

\* the caller cancels the ctx it gave to StartCleanup
Cancel ==
    /\ ~ctxDone
    /\ ctxDone' = TRUE
    /\ UNCHANGED <<reg, shut, rcall, lockVars, listed, tickerC, taskPc, dev, limitVars, poolVars,
                   now, threadVars, cuPending, clientVars>>

\* lines 115-116: the select takes <-ctx.Done(), the goroutine returns
TaskExit ==
    /\ taskPc = "select" /\ ctxDone
    /\ taskPc' = "exited"
    /\ UNCHANGED <<reg, shut, rcall, lockVars, listed, ctxDone, tickerC, dev, limitVars, poolVars,
                   now, threadVars, cuPending, clientVars>>

\* lines 117-118: the select takes <-ticker.C and m.pool.CleanUp() runs. A
\* select with several ready cases takes any one of them, so ctxDone is no guard
TaskCleanUp ==
    /\ taskPc = "select" /\ tickerC = 1
    /\ tickerC' = 0
    /\ LET r == CleanMapped(heap, {pools[id] : id \in IDs} \ {NoPool}, now) IN
       /\ heap' = r.heap
       /\ closeCount' = CloseSessions(closeCount, r.closes)
       /\ swept' = r.closes
    /\ last' = Call("CleanUp", "", NoSession, ErrNil, FALSE, FALSE)
    /\ chain' = <<>>
    /\ UNCHANGED <<reg, shut, rcall, lockVars, listed, ctxDone, taskPc, dev, limitVars, pools,
                   nsess, sessOrigin, openedAt, now, threadVars, cuPending, held, misuse>>

TaskNext ==
    \/ StartCleanup
    \/ TickerFire
    \/ Cancel
    \/ TaskExit
    \/ TaskCleanUp
    \/ \E id \in IDs, ep \in Endpoints, d \in Drivers :
          PoolGetSession(id, Device(id, ep, d), "ok")
    \/ \E id \in IDs, sess \in 1..nsess : held[sess] = id /\ PoolReturnSession(id, sess)
    \/ PoolSetLimits(TaskMaxIdle, TaskMaxOpen, TaskIdleTime)
    \/ PoolClose
    \/ PoolTick
    \/ \E id \in RegIDs, ep \in Endpoints, d \in Drivers :
          AddOrDetect(id, ep, d, <<>>) /\ UNCHANGED rcall
    \/ StatsCall

TaskSpec == Init /\ [][TaskNext]_vars

\* the goroutine is scheduled: a select whose <-ctx.Done() case stays ready is
\* taken in the end
TaskLiveSpec == TaskSpec /\ WF_vars(TaskExit)

\* once the ctx is cancelled the cleanup goroutine returns, and after that no
\* CleanUp pass is run by it
TaskExits == (ctxDone /\ taskPc = "select") ~> (taskPc = "exited")
TaskQuietAfterExit == [][taskPc = "exited" => ~TaskCleanUp]_vars

\* ------------------------------- the registry and the device table, called
\* ------------------------------- by one client
\* NewRegistry() and a Manager over it
RegInit == reg = <<>> /\ InitManager

\* Registry.Register(d)
Register(d) ==
    /\ Len(reg) < MaxDrivers
    /\ reg' = Append(reg, d)
    /\ rcall' = [op |-> "Register", d |-> d]
    /\ UNCHANGED <<dev, shut, lockVars, taskVars, listed, limitVars, poolVars, now, threadVars, cuPending,
                   clientVars>>

\* Registry.Detect(ctx, ep), the whole call
RegDetect(outcomes) ==
    /\ rcall' = [op |-> "Detect", outcomes |-> outcomes,
                 res |-> RegistryDetect(reg, outcomes)]
    /\ UNCHANGED <<reg, dev, shut, lockVars, taskVars, listed, limitVars, poolVars, now, threadVars,
                   cuPending, clientVars>>

\* Manager.AddOrDetect(ctx, id, ep, d), the whole call, what it returns and
\* the record the table had for id when it was called
RegAddOrDetect(id, ep, d, outcomes) ==
    /\ AddOrDetect(id, ep, d, outcomes)
    /\ rcall' = [op |-> "AddOrDetect", id |-> id, ep |-> ep, d |-> d,
                 outcomes |-> outcomes, res |-> Resolve(d, outcomes), had |-> dev[id]]

\* Manager.List(): the records it returns (in map iteration order)
List == {dev[id] : id \in {i \in IDs : dev[i] # NoDevice}}

RegNext ==
    \/ \E d \in RegDrivers : Register(d)
    \/ \E outcomes \in [1..Len(reg) -> RegOutcomes] : RegDetect(outcomes)
    \/ \E id \in IDs, ep \in RegEndpoints, d \in RegDrivers :
          RegAddOrDetect(id, ep, d, <<>>)
    \/ \E id \in IDs, ep \in RegEndpoints, outcomes \in [1..Len(reg) -> RegOutcomes] :
          RegAddOrDetect(id, ep, NoDriver, outcomes)

RegSpec == RegInit /\ [][RegNext]_vars

\* ------------------------------- Registry.Get, with drivers of one name
\* the drivers the client registers and the names it looks up
GetDrivers == {"d1", "d2", "d3"}
GetNames == {"alpha", "beta", "gamma"}

\* Registry.Get line 41, the loop from position i: the driver found and its
\* position, or nil
RECURSIVE GetFrom(_, _, _)
GetFrom(drivers, name, i) ==
    IF i > Len(drivers) THEN [driver |-> NoDriver, index |-> 0]
    ELSE IF Name(drivers[i]) = name THEN [driver |-> drivers[i], index |-> i]
    ELSE GetFrom(drivers, name, i + 1)

\* Get that returns the driver registered last under the name
RegistryGet_Last(drivers, name) ==
    LET hits == {i \in 1..Len(drivers) : Name(drivers[i]) = name} IN
    IF hits = {} THEN [driver |-> NoDriver, index |-> 0]
    ELSE LET j == CHOOSE i \in hits : \A k \in hits : k <= i IN
         [driver |-> drivers[j], index |-> j]

\* Registry.Get(name)
RegistryGet(drivers, name) == GetFrom(drivers, name, 1)

\* Registry.Get(name), the whole call
RegGet(name) ==
    /\ rcall' = [op |-> "Get", name |-> name, res |-> RegistryGet(reg, name)]
    /\ UNCHANGED <<reg, dev, shut, lockVars, taskVars, listed, limitVars, poolVars, now, threadVars,
                   cuPending, clientVars>>

GetNext ==
    \/ \E d \in GetDrivers : Register(d)
    \/ \E outcomes \in [1..Len(reg) -> DetectOutcomes] : RegDetect(outcomes)
    \/ \E name \in GetNames : RegGet(name)

GetSpec == RegInit /\ [][GetNext]_vars

\* ------------------------------- List() and DeviceInfos(), and a client that
\* ------------------------------- writes to the elements of the slice it got
\* the ids the device table has a record for
Tracked == {id \in IDs : dev[id] # NoDevice}

\* the orders in which a range over a map with the keys S can visit them
Orders(S) == {o \in [1..Cardinality(S) -> S] : \A i, j \in DOMAIN o : o[i] = o[j] => i = j}

\* an element of a returned slice: val is what it holds, ref the id of the
\* table's record it shares its memory with ("" for memory of its own)
\* a List that appends the *Device of the table, not a copy of the Device
DeviceCopy_Alias(d) == [ref |-> d.ID, val |-> d]

\* Manager.List line 60, *d: a new Device value holding the fields of d
DeviceCopy(d) == [ref |-> "", val |-> d]

\* Manager.DeviceInfos line 97: a new DeviceInfo built from the strings of d
DeviceInfo(d) ==
    [ref |-> "", val |-> [ID |-> d.ID, Address |-> d.Endpoint, Driver |-> d.DriverName]]

\* Manager.List(), the whole call; order is the map iteration order
ListCall(order) ==
    /\ listed' = [i \in 1..Len(order) |-> DeviceCopy(dev[order[i]])]
    /\ rcall' = [op |-> "List"]
    /\ UNCHANGED <<reg, dev, shut, lockVars, taskVars, limitVars, poolVars, now, threadVars,
                   cuPending, clientVars>>

\* Manager.DeviceInfos(), the whole call
DeviceInfosCall(order) ==
    /\ listed' = [i \in 1..Len(order) |-> DeviceInfo(dev[order[i]])]
    /\ rcall' = [op |-> "DeviceInfos"]
    /\ UNCHANGED <<reg, dev, shut, lockVars, taskVars, limitVars, poolVars, now, threadVars,
                   cuPending, clientVars>>

\* the fields of an element the client assigns to: id, endpoint, driver name
MutableFields(val) ==
    IF "Address" \in DOMAIN val THEN {"ID", "Address", "Driver"}
    ELSE {"ID", "Endpoint", "DriverName"}

\* the client assigns v to field f of element i of the slice it got; the write
\* goes to the memory the element has
Mutate(i, f, v) ==
    /\ i \in 1..Len(listed)
    /\ f \in MutableFields(listed[i].val)
    /\ listed[i].val[f] # v
    /\ listed' = [listed EXCEPT ![i].val[f] = v]
    /\ dev' = IF listed[i].ref = "" THEN dev
              ELSE [dev EXCEPT ![listed[i].ref][f] = v]
    /\ rcall' = [op |-> "Mutate"]
    /\ UNCHANGED <<reg, shut, lockVars, taskVars, limitVars, poolVars, now, threadVars,
                   cuPending, clientVars>>

ListNext ==
    \/ \E id \in IDs, ep \in RegEndpoints, d \in RegDrivers :
          AddOrDetect(id, ep, d, <<>>) /\ rcall' = [op |-> "AddOrDetect"]
    \/ \E order \in Orders(Tracked) : ListCall(order)
    \/ \E order \in Orders(Tracked) : DeviceInfosCall(order)
    \/ \E i \in 1..MaxPools, f \in {"ID", "Endpoint", "DriverName", "Address", "Driver"} :
          Mutate(i, f, "x")

ListSpec == RegInit /\ [][ListNext]_vars

\* ------------------------------------ the pool with its locks made explicit
\* p.mu is a sync.RWMutex (locks.w its writer, locks.r its readers), every
\* DevicePool has a sync.Mutex (locks.d, by reference). A goroutine that called
\* Lock / RLock and has not got the lock is at pc "wantW" / "wantR" / "wantD".
\* A critical section in which the goroutine cannot block is one step.
LockInit ==
    /\ reg = <<"d1">>
    /\ InitManager

\* p.mu.Lock() can return: no writer and no reader
WFree == locks.w = "" /\ locks.r = {}

\* p.mu.RLock() can return: no writer, and no goroutine waiting in Lock()
RFree == locks.w = "" /\ \A g \in Goroutines : lk[g].pc # "wantW"

\* dp.mu.Lock() of sub-pool ref can return
DFree(ref) == locks.d[ref] = ""

\* the sub-pools the map or a goroutine refers to
LockReach(pl, l) ==
    (({pl[id] : id \in IDs} \cup {l[g].pool : g \in Goroutines})
        \cup UNION {l[g].todo : g \in Goroutines}) \ {NoPool}

LockFrame == UNCHANGED <<reg, dev, limitVars, now, threadVars, cuPending, clientVars,
                         shut, rcall, taskVars, listed>>

\* a goroutine calls GetSession(ctx, id, device), ReturnSession(id, sess),
\* CleanUp(), Stats() or Close() and reaches the call's first lock
LockCall(g, op, id) ==
    /\ lk[g].pc = "idle"
    /\ \/ op = "Get" /\ g \in Users /\ lk[g].sess = NoSession
       \/ op = "Return" /\ g \in Users /\ lk[g].sess # NoSession /\ id = lk[g].id
       \/ op \in {"CleanUp", "Stats", "Close"} /\ g \in Keepers /\ id = ""
    /\ lk' = [lk EXCEPT ![g] = [@ EXCEPT !.op = op, !.id = id,
                 !.pc = IF op \in {"Get", "Close"} THEN "wantW" ELSE "wantR"]]
    /\ UNCHANGED <<poolVars, locks>>
    /\ LockFrame

\* GetSession that makes a new sub-pool also when the one of the map holds no
\* session yet, as a lookup outside p.mu.Lock() does for two first callers
LockGetMap_Racy(g) ==
    /\ lk[g].op = "Get" /\ lk[g].pc = "wantW" /\ WFree
    /\ IF pools[lk[g].id] # NoPool /\ ~IsEmpty(heap[pools[lk[g].id]])
       THEN /\ lk' = [lk EXCEPT ![g] = [@ EXCEPT !.pc = "wantD", !.pool = pools[lk[g].id]]]
            /\ UNCHANGED <<pools, heap>>
       ELSE \E ref \in PoolRefs \ LockReach(pools, lk) :
            /\ \A q \in PoolRefs \ LockReach(pools, lk) : ref <= q
            /\ heap' = [heap EXCEPT ![ref] =
                          NewDevicePool(Device(lk[g].id, "e1", "d1"),
                                        pMaxIdle, pMaxOpen, pIdleTime)]
            /\ pools' = [pools EXCEPT ![lk[g].id] = ref]
            /\ lk' = [lk EXCEPT ![g] = [@ EXCEPT !.pc = "wantD", !.pool = ref]]
    /\ UNCHANGED <<nsess, sessOrigin, openedAt, closeCount, locks>>
    /\ LockFrame

\* ConnectionPool.GetSession lines 51-64: p.mu.Lock() .. p.mu.Unlock()
LockGetMap(g) ==
    /\ lk[g].op = "Get" /\ lk[g].pc = "wantW" /\ WFree
    /\ IF pools[lk[g].id] # NoPool
       THEN /\ lk' = [lk EXCEPT ![g] = [@ EXCEPT !.pc = "wantD", !.pool = pools[lk[g].id]]]
            /\ UNCHANGED <<pools, heap>>
       ELSE \E ref \in PoolRefs \ LockReach(pools, lk) :
            /\ \A q \in PoolRefs \ LockReach(pools, lk) : ref <= q
            /\ heap' = [heap EXCEPT ![ref] =
                          NewDevicePool(Device(lk[g].id, "e1", "d1"),
                                        pMaxIdle, pMaxOpen, pIdleTime)]
            /\ pools' = [pools EXCEPT ![lk[g].id] = ref]
            /\ lk' = [lk EXCEPT ![g] = [@ EXCEPT !.pc = "wantD", !.pool = ref]]
    /\ UNCHANGED <<nsess, sessOrigin, openedAt, closeCount, locks>>
    /\ LockFrame

\* the goroutine has finished GetSession with result r
GetDone(g, r) ==
    /\ lk' = [lk EXCEPT ![g] = IF r.err = ErrNil
                               THEN [Idle EXCEPT !.id = lk[g].id, !.sess = r.sess]
                               ELSE Idle]
    /\ heap' = Collect([heap EXCEPT ![lk[g].pool] = r.dp], LockReach(pools, lk'))
    /\ nsess' = IF r.opened /\ r.err = ErrNil THEN nsess + 1 ELSE nsess
    /\ sessOrigin' = IF r.opened /\ r.err = ErrNil
                     THEN [sessOrigin EXCEPT ![r.sess] = heap[lk[g].pool].device]
                     ELSE sessOrigin
    /\ openedAt' = IF r.opened /\ r.err = ErrNil
                   THEN [openedAt EXCEPT ![r.sess] = now] ELSE openedAt
    /\ UNCHANGED <<pools, closeCount>>

\* DevicePool.getSession lines 110-124: dp.mu.Lock(), then an idle session or
\* the exhaustion error (and dp.mu.Unlock()), or on to Driver.Open
LockGetEnter(g) ==
    /\ lk[g].op = "Get" /\ lk[g].pc = "wantD" /\ DFree(lk[g].pool)
    /\ LET dp == heap[lk[g].pool] IN
       IF Len(dp.idle) > 0 \/ Cardinality(dp.active) >= dp.maxOpen
       THEN /\ GetDone(g, getSession(dp, "ok", nsess + 1, now))
            /\ UNCHANGED locks
       ELSE /\ locks' = [locks EXCEPT !.d[lk[g].pool] = g]
            /\ lk' = [lk EXCEPT ![g] = [@ EXCEPT !.pc = "open"]]
            /\ UNCHANGED poolVars
    /\ LockFrame

\* getSession that takes p.mu.RLock() after Driver.Open, dp.mu still held
LockGetOpened_Relock(g, openRes) ==
    /\ lk[g].op = "Get" /\ lk[g].pc = "open" /\ RFree
    /\ openRes = "ok" => nsess < MaxSessions
    /\ GetDone(g, getSession(heap[lk[g].pool], openRes, nsess + 1, now))
    /\ locks' = [locks EXCEPT !.d[lk[g].pool] = ""]
    /\ LockFrame

\* DevicePool.getSession lines 127-134: Driver.Open returns, dp.mu.Unlock()
LockGetOpened(g, openRes) ==
    /\ lk[g].op = "Get" /\ lk[g].pc = "open"
    /\ openRes = "ok" => nsess < MaxSessions
    /\ GetDone(g, getSession(heap[lk[g].pool], openRes, nsess + 1, now))
    /\ locks' = [locks EXCEPT !.d[lk[g].pool] = ""]
    /\ LockFrame

\* ConnectionPool.ReturnSession lines 71-73 and 78-80
LockReturnLookup(g) ==
    /\ lk[g].op = "Return" /\ lk[g].pc = "wantR" /\ RFree
    /\ IF pools[lk[g].id] # NoPool
       THEN /\ lk' = [lk EXCEPT ![g] = [@ EXCEPT !.pc = "wantD", !.pool = pools[lk[g].id]]]
            /\ UNCHANGED closeCount
       ELSE /\ lk' = [lk EXCEPT ![g] = Idle]
            /\ closeCount' = CloseSessions(closeCount, <<lk[g].sess>>)
    /\ UNCHANGED <<pools, heap, nsess, sessOrigin, openedAt, locks>>
    /\ LockFrame

\* ConnectionPool.ReturnSession line 76: pool.returnSession(sess)
LockReturnPool(g) ==
    /\ lk[g].op = "Return" /\ lk[g].pc = "wantD" /\ DFree(lk[g].pool)
    /\ LET r == returnSession(heap[lk[g].pool], lk[g].sess) IN
       /\ closeCount' = CloseSessions(closeCount, r.closes)
       /\ lk' = [lk EXCEPT ![g] = Idle]
       /\ heap' = Collect([heap EXCEPT ![lk[g].pool] = r.dp], LockReach(pools, lk'))
    /\ UNCHANGED <<pools, nsess, sessOrigin, openedAt, locks>>
    /\ LockFrame

\* the loop of CleanUp, Stats or Close goes on to a sub-pool of todo (in map
\* iteration order, which is any order); with none left the call is over
LoopOn(g, todo) ==
    /\ todo # {}
    /\ \E ref \in todo :
          lk' = [lk EXCEPT ![g] = [@ EXCEPT !.pc = "wantD", !.pool = ref,
                                             !.todo = todo \ {ref}]]

\* ConnectionPool.CleanUp lines 85-90
LockCleanSnapshot(g) ==
    /\ lk[g].op = "CleanUp" /\ lk[g].pc = "wantR" /\ RFree
    /\ \/ LoopOn(g, {pools[id] : id \in IDs} \ {NoPool})
       \/ /\ \A id \in IDs : pools[id] = NoPool
          /\ lk' = [lk EXCEPT ![g] = Idle]
    /\ UNCHANGED <<poolVars, locks>>
    /\ LockFrame

\* ConnectionPool.CleanUp lines 92-94: one pool.cleanExpired()
LockCleanPool(g) ==
    /\ lk[g].op = "CleanUp" /\ lk[g].pc = "wantD" /\ DFree(lk[g].pool)
    /\ LET r == cleanExpired(heap[lk[g].pool], now) IN
       /\ closeCount' = CloseSessions(closeCount, r.closes)
       /\ \/ LoopOn(g, lk[g].todo)
          \/ lk[g].todo = {} /\ lk' = [lk EXCEPT ![g] = Idle]
       /\ heap' = Collect([heap EXCEPT ![lk[g].pool] = r.dp], LockReach(pools, lk'))
    /\ UNCHANGED <<pools, nsess, sessOrigin, openedAt, locks>>
    /\ LockFrame

\* ConnectionPool.Stats lines 201-202: p.mu.RLock(), held to the end
LockStatsLock(g) ==
    /\ lk[g].op = "Stats" /\ lk[g].pc = "wantR" /\ RFree
    /\ \/ /\ LoopOn(g, {pools[id] : id \in IDs} \ {NoPool})
          /\ locks' = [locks EXCEPT !.r = @ \cup {g}]
       \/ /\ \A id \in IDs : pools[id] = NoPool
          /\ lk' = [lk EXCEPT ![g] = Idle]
          /\ UNCHANGED locks
    /\ UNCHANGED poolVars
    /\ LockFrame

\* ConnectionPool.Stats lines 206-213: one pool.mu.Lock() .. pool.mu.Unlock()
LockStatsPool(g) ==
    /\ lk[g].op = "Stats" /\ lk[g].pc = "wantD" /\ DFree(lk[g].pool)
    /\ \/ LoopOn(g, lk[g].todo) /\ UNCHANGED locks
       \/ /\ lk[g].todo = {}
          /\ lk' = [lk EXCEPT ![g] = Idle]
          /\ locks' = [locks EXCEPT !.r = @ \ {g}]
    /\ UNCHANGED poolVars
    /\ LockFrame

\* ConnectionPool.Close lines 99-100: p.mu.Lock(), held to the end
LockCloseLock(g) ==
    /\ lk[g].op = "Close" /\ lk[g].pc = "wantW" /\ WFree
    /\ \/ /\ LoopOn(g, {pools[id] : id \in IDs} \ {NoPool})
          /\ locks' = [locks EXCEPT !.w = g]
       \/ /\ \A id \in IDs : pools[id] = NoPool
          /\ lk' = [lk EXCEPT ![g] = Idle]
          /\ UNCHANGED locks
    /\ UNCHANGED poolVars
    /\ LockFrame

\* ConnectionPool.Close lines 102-105: one pool.closeAll(); after the last one
\* the map is replaced and p.mu released
LockClosePool(g) ==
    /\ lk[g].op = "Close" /\ lk[g].pc = "wantD" /\ DFree(lk[g].pool)
    /\ LET r == closeAll(heap[lk[g].pool]) IN
       /\ closeCount' = CloseSessions(closeCount, r.closes)
       /\ \/ /\ LoopOn(g, lk[g].todo)
             /\ UNCHANGED <<pools, locks>>
          \/ /\ lk[g].todo = {}
             /\ lk' = [lk EXCEPT ![g] = Idle]
             /\ pools' = [id \in IDs |-> NoPool]
             /\ locks' = [locks EXCEPT !.w = ""]
       /\ heap' = Collect([heap EXCEPT ![lk[g].pool] = r.dp], LockReach(pools', lk'))
    /\ UNCHANGED <<nsess, sessOrigin, openedAt>>
    /\ LockFrame

LockNext ==
    \/ \E g \in Goroutines, op \in {"Get", "Return"}, id \in IDs : LockCall(g, op, id)
    \/ \E g \in Goroutines, op \in {"CleanUp", "Stats", "Close"} : LockCall(g, op, "")
    \/ \E g \in Goroutines : LockGetMap(g)
    \/ \E g \in Goroutines : LockGetEnter(g)
    \/ \E g \in Goroutines, openRes \in {"ok"} \cup OpenErrors : LockGetOpened(g, openRes)
    \/ \E g \in Goroutines : LockReturnLookup(g)
    \/ \E g \in Goroutines : LockReturnPool(g)
    \/ \E g \in Goroutines : LockCleanSnapshot(g)
    \/ \E g \in Goroutines : LockCleanPool(g)
    \/ \E g \in Goroutines : LockStatsLock(g)
    \/ \E g \in Goroutines : LockStatsPool(g)
    \/ \E g \in Goroutines : LockCloseLock(g)
    \/ \E g \in Goroutines : LockClosePool(g)

LockSpec == LockInit /\ [][LockNext]_vars

\* ------------------- the Manager, the Registry and the pool, all mutexes
\* ------------------- explicit
\* the goroutine that calls WithSession and List, and the one that calls
\* AddOrDetect, Register and Detect; the one of Keepers also calls SetLimits
Callers == {"g1"}
Admins == {"g3"}

\* m.mu.Lock() can return. m.mu.RLock() is never held across a step: List and
\* WithSession release it before they call anything that can wait
MWFree == locks.m = ""

\* m.mu.RLock() can return: no writer, and no goroutine waiting in Lock()
MRFree == locks.m = "" /\ \A g \in Goroutines : lk[g].pc # "wantMW"

\* r.mu.Lock() can return. Register holds it for one append only
RWFree == locks.rr = {}

\* r.mu.RLock() can return: no goroutine waiting in Lock()
RRFree == \A g \in Goroutines : lk[g].pc # "wantRW"

MgrFrame == UNCHANGED <<now, threadVars, cuPending, clientVars, shut, rcall, taskVars,
                        poolVars>>

\* a goroutine calls WithSession(ctx, id, fn), List(), AddOrDetect(ctx, id, ep,
\* d), Registry.Register(d), Registry.Detect(ctx, ep) or SetLimits and reaches
\* the call's first lock
MgrCall(g, op, id) ==
    /\ lk[g].pc = "idle" /\ lk[g].sess = NoSession
    /\ \/ op = "WithSession" /\ g \in Callers /\ id \in IDs
       \/ op = "List" /\ g \in Callers /\ id = ""
       \/ op = "AddOrDetect" /\ g \in Admins /\ id \in IDs
       \/ op = "Detect" /\ g \in Admins /\ id = ""
       \/ op = "Register" /\ g \in Admins /\ id = "" /\ Len(reg) < MaxDrivers
       \/ op = "SetLimits" /\ g \in Keepers /\ id = ""
    /\ lk' = [lk EXCEPT ![g] = [@ EXCEPT !.op = op, !.id = id,
                 !.pc = CASE op = "AddOrDetect" -> "wantMW"
                          [] op \in {"WithSession", "List"} -> "wantMR"
                          [] op = "Detect" -> "wantRR"
                          [] op = "Register" -> "wantRW"
                          [] OTHER -> "wantW"]]
    /\ UNCHANGED <<reg, dev, limitVars, listed, locks>>
    /\ MgrFrame

\* Manager.AddOrDetect lines 41-43: m.mu.Lock(); with a driver given the record
\* is stored and m.mu released (lines 50-52), with none the call goes on to
\* Registry.Detect and keeps m.mu
MgrAddLock(g, d) ==
    /\ lk[g].op = "AddOrDetect" /\ lk[g].pc = "wantMW" /\ MWFree
    /\ IF d # NoDriver
       THEN /\ dev' = [dev EXCEPT ![lk[g].id] = Device(lk[g].id, "e1", d)]
            /\ lk' = [lk EXCEPT ![g] = Idle]
            /\ UNCHANGED locks
       ELSE /\ locks' = [locks EXCEPT !.m = g]
            /\ lk' = [lk EXCEPT ![g] = [@ EXCEPT !.pc = "wantRR"]]
            /\ UNCHANGED dev
    /\ UNCHANGED <<reg, limitVars, listed>>
    /\ MgrFrame

\* Registry.Detect lines 24-25: r.mu.RLock(), held while the drivers probe
MgrDetectLock(g) ==
    /\ lk[g].op \in {"AddOrDetect", "Detect"} /\ lk[g].pc = "wantRR" /\ RRFree
    /\ locks' = [locks EXCEPT !.rr = @ \cup {g}]
    /\ lk' = [lk EXCEPT ![g] = [@ EXCEPT !.pc = "detect"]]
    /\ UNCHANGED <<reg, dev, limitVars, listed>>
    /\ MgrFrame

\* Registry.Detect lines 26-35: the probes have answered outcomes, r.mu is
\* released; in AddOrDetect lines 46-52 follow and m.mu is released
MgrDetectDone(g, outcomes) ==
    /\ lk[g].pc = "detect"
    /\ LET det == Resolve(NoDriver, outcomes) IN
       dev' = IF lk[g].op = "AddOrDetect" /\ det.err = ErrNil
              THEN [dev EXCEPT ![lk[g].id] = Device(lk[g].id, "e1", det.driver)]
              ELSE dev
    /\ locks' = [locks EXCEPT !.rr = @ \ {g},
                              !.m = IF lk[g].op = "AddOrDetect" THEN "" ELSE @]
    /\ lk' = [lk EXCEPT ![g] = Idle]
    /\ UNCHANGED <<reg, limitVars, listed>>
    /\ MgrFrame

\* Registry.Register: r.mu.Lock(), append, r.mu.Unlock()
MgrRegister(g, d) ==
    /\ lk[g].op = "Register" /\ lk[g].pc = "wantRW" /\ RWFree
    /\ reg' = Append(reg, d)
    /\ lk' = [lk EXCEPT ![g] = Idle]
    /\ UNCHANGED <<dev, limitVars, listed, locks>>
    /\ MgrFrame

\* Manager.List: m.mu.RLock(), the copies, m.mu.RUnlock(); the slice goes to
\* the caller and is no state of the Manager
MgrList(g, order) ==
    /\ lk[g].op = "List" /\ lk[g].pc = "wantMR" /\ MRFree
    /\ Len([i \in 1..Len(order) |-> DeviceCopy(dev[order[i]])]) = Cardinality(Tracked)
    /\ lk' = [lk EXCEPT ![g] = Idle]
    /\ UNCHANGED <<reg, dev, limitVars, listed, locks>>
    /\ MgrFrame

\* Manager.WithSession lines 67-72: m.mu.RLock(), the lookup, m.mu.RUnlock();
\* ErrNotFound, or on to ConnectionPool.GetSession. fn runs while the
\* goroutine holds the session, and the deferred ReturnSession follows
MgrWithLookup(g) ==
    /\ lk[g].op = "WithSession" /\ lk[g].pc = "wantMR" /\ MRFree
    /\ lk' = [lk EXCEPT ![g] = IF dev[lk[g].id] = NoDevice THEN Idle
                               ELSE [@ EXCEPT !.op = "Get", !.pc = "wantW"]]
    /\ UNCHANGED <<reg, dev, limitVars, listed, locks>>
    /\ MgrFrame

\* ConnectionPool.SetLimits: p.mu.Lock(), the three writes, p.mu.Unlock()
MgrSetLimits(g, maxIdle, maxOpen, idleTime) ==
    /\ lk[g].op = "SetLimits" /\ lk[g].pc = "wantW" /\ WFree
    /\ pMaxIdle' = maxIdle
    /\ pMaxOpen' = maxOpen
    /\ pIdleTime' = idleTime
    /\ lk' = [lk EXCEPT ![g] = Idle]
    /\ UNCHANGED <<reg, dev, listed, locks>>
    /\ MgrFrame

MgrLockNext ==
    \/ \E g \in Goroutines, id \in RegIDs : MgrCall(g, "WithSession", id)
    \/ \E g \in Goroutines, id \in IDs : MgrCall(g, "AddOrDetect", id)
    \/ \E g \in Goroutines, op \in {"List", "Detect", "Register", "SetLimits"} :
          MgrCall(g, op, "")
    \/ \E g \in Goroutines, d \in Drivers \cup {NoDriver} : MgrAddLock(g, d)
    \/ \E g \in Goroutines : MgrDetectLock(g)
    \/ \E g \in Goroutines, outcomes \in [1..Len(reg) -> DetectOutcomes] :
          MgrDetectDone(g, outcomes)
    \/ \E g \in Goroutines, d \in Drivers : MgrRegister(g, d)
    \/ \E g \in Goroutines, order \in Orders(Tracked) : MgrList(g, order)
    \/ \E g \in Goroutines : MgrWithLookup(g)
    \/ \E g \in Goroutines : MgrSetLimits(g, DefaultMaxIdle, DefaultMaxOpen, DefaultIdleTime)
    \/ \E g \in Goroutines, id \in IDs : LockCall(g, "Return", id)
    \/ \E g \in Goroutines, op \in {"CleanUp", "Stats", "Close"} : LockCall(g, op, "")
    \/ \E g \in Goroutines : LockGetMap(g)
    \/ \E g \in Goroutines : LockGetEnter(g)
    \/ \E g \in Goroutines, openRes \in {"ok"} \cup OpenErrors : LockGetOpened(g, openRes)
    \/ \E g \in Goroutines : LockReturnLookup(g)
    \/ \E g \in Goroutines : LockReturnPool(g)
    \/ \E g \in Goroutines : LockCleanSnapshot(g)
    \/ \E g \in Goroutines : LockCleanPool(g)
    \/ \E g \in Goroutines : LockStatsLock(g)
    \/ \E g \in Goroutines : LockStatsPool(g)
    \/ \E g \in Goroutines : LockCloseLock(g)
    \/ \E g \in Goroutines : LockClosePool(g)

MgrLockSpec == LockInit /\ [][MgrLockNext]_vars

\* the steps goroutine g takes inside a call it has begun: the locks it gets,
\* the answers of the drivers, the return of fn and the deferred ReturnSession
Progress(g) ==
    \/ \E d \in Drivers \cup {NoDriver} : MgrAddLock(g, d)
    \/ MgrDetectLock(g)
    \/ \E outcomes \in [1..Len(reg) -> DetectOutcomes] : MgrDetectDone(g, outcomes)
    \/ \E d \in Drivers : MgrRegister(g, d)
    \/ \E order \in Orders(Tracked) : MgrList(g, order)
    \/ MgrWithLookup(g)
    \/ MgrSetLimits(g, DefaultMaxIdle, DefaultMaxOpen, DefaultIdleTime)
    \/ \E id \in IDs : LockCall(g, "Return", id)
    \/ LockGetMap(g)
    \/ LockGetEnter(g)
    \/ \E openRes \in {"ok"} \cup OpenErrors : LockGetOpened(g, openRes)
    \/ LockReturnLookup(g)
    \/ LockReturnPool(g)
    \/ LockCleanSnapshot(g)
    \/ LockCleanPool(g)
    \/ LockStatsLock(g)
    \/ LockStatsPool(g)
    \/ LockCloseLock(g)
    \/ LockClosePool(g)

\* sync.RWMutex and sync.Mutex hand a lock to a goroutine that keeps waiting
\* for it (a waiting writer stops new readers, Unlock wakes the readers that
\* wait, a starving Mutex waiter gets the lock next), and drivers and fn return
MgrLiveSpec == MgrLockSpec /\ \A g \in Goroutines : SF_vars(Progress(g))

\* ------------------- WithSession for a device that is registered again
\* one caller of WithSession, which also registers the devices, a second time
\* and with another endpoint or driver too, and closes the Manager
ReRegCallers == {"t1"}

ReRegNext ==
    \/ \E id \in RegIDs, ep \in RegEndpoints, d \in RegDrivers :
          AddOrDetect(id, ep, d, <<>>) /\ UNCHANGED rcall
    \/ \E t \in ReRegCallers, id \in RegIDs : WithSessionLookup(t, id)
    \/ \E t \in ReRegCallers : GetSessionMap(t)
    \/ \E t \in ReRegCallers : GetSessionPool(t, "ok")
    \/ \E t \in ReRegCallers : Callback(t, ErrNil)
    \/ \E t \in ReRegCallers : ReturnSessionMap(t)
    \/ \E t \in ReRegCallers : ReturnSessionPool(t)
    \/ Close

ReRegSpec == Init /\ [][ReRegNext]_vars

\* ------------------------------------------------------------------ claims
\* the sub-pool of id before and after a step
PoolOfNext(id) == IF pools'[id] = NoPool THEN FreePool ELSE heap'[pools'[id]]

\* the sub-pool a GetSession(id) works on: the one of the map, or a new one
PoolForGet(id) ==
    IF pools[id] # NoPool THEN heap[pools[id]]
    ELSE NewDevicePool(PoolOfNext(id).device, pMaxIdle, pMaxOpen, pIdleTime)

\* a step of PoolSpec that is a call of GetSession(id) / ReturnSession(id, _)
GetStep(id) == last'.op = "Get" /\ last'.id = id /\ now' = now
ReturnStep(id) == last'.op = "Return" /\ last'.id = id /\ now' = now

\* the callers of WithSession that hold session s
Holders(s) == {t \in Threads : tsess[t] = s}

\* the number of places session s has in the idle lists of the sub-pools
RECURSIVE IdleCount(_, _)
IdleCount(s, refs) ==
    IF refs = {} THEN 0
    ELSE LET r == CHOOSE x \in refs : TRUE IN
         Occurrences(heap[r].idle, s) + IdleCount(s, refs \ {r})

\* C1: in every reachable state, under any interleaving of WithSession,
\* AddOrDetect, CleanUp, Stats, SetLimits and Close, the active set of every
\* sub-pool holds at most maxOpen sessions.
C1_ActiveWithinMaxOpen ==
    \A id \in IDs : pools[id] # NoPool =>
        Cardinality(heap[pools[id]].active) <= heap[pools[id]].maxOpen

\* C2: after any sequence of GetSession, ReturnSession, CleanUp and Close,
\* returns of sessions that were never checked out included, the idle list of
\* every sub-pool is no longer than its maxIdle.
C2_IdleWithinMaxIdle ==
    \A r \in PoolRefs : Len(heap[r].idle) <= heap[r].maxIdle

\* a return of a session that was not checked out found the idle list full
C2_Witness ==
    /\ last.op = "Return" /\ misuse > 0 /\ closeCount[last.sess] > 0
    /\ pools[last.id] # NoPool
    /\ heap[pools[last.id]].maxIdle > 0
    /\ Len(heap[pools[last.id]].idle) = heap[pools[last.id]].maxIdle

\* C3 as stated: in every reachable state no session is both in the idle list
\* and in the active set of a sub-pool.
C3_IdleActiveDisjoint ==
    \A r \in PoolRefs : Range(heap[r].idle) \cap heap[r].active = {}

\* C3 as amended: as long as every ReturnSession(id, s) passed a session that
\* was checked out for id and not returned since, no session is both in the idle
\* list and in the active set of a sub-pool.
C3_DisjointWithoutMisuse ==
    misuse = 0 => C3_IdleActiveDisjoint

\* a sub-pool with an idle and an active session, all returns so far proper
C3_Witness ==
    /\ misuse = 0
    /\ \E r \in PoolRefs : Len(heap[r].idle) > 0 /\ heap[r].active # {}

\* C4: with sessions used only through WithSession, a session is at any time
\* in at most one place: one entry of one idle list, or one in-flight
\* WithSession call; no two callbacks hold the same session.
C4_OneHolder ==
    \A s \in Sessions : Cardinality(Holders(s)) + IdleCount(s, PoolRefs) <= 1

\* two callbacks run at once, on different sessions
C4_Witness ==
    /\ pc["t1"] = "fn" /\ pc["t2"] = "fn"
    /\ tsess["t1"] # tsess["t2"]
    /\ tid["t1"] = tid["t2"]

\* C5: a WithSession call that obtained a session calls ReturnSession exactly
\* once, with that session, after fn has returned (nil or an error); a call that
\* obtained none never calls ReturnSession.
C5_ReturnedExactlyOnce ==
    \A t \in Threads :
        /\ obs[t].retCalls <= 1
        /\ obs[t].retCalls = 1 =>
              /\ obs[t].fnCalls = 1 /\ obs[t].fnErr # "none"
              /\ obs[t].got # NoSession /\ obs[t].returned = obs[t].got
        /\ pc[t] = "done" => (obs[t].retCalls = 1 <=> obs[t].got # NoSession)
        /\ obs[t].got = NoSession => obs[t].retCalls = 0

\* a call whose fn returned an error has finished, its session returned once
C5_Witness ==
    \E t \in Threads :
        pc[t] = "done" /\ obs[t].fnErr = "FN_ERROR" /\ obs[t].retCalls = 1

\* C6: WithSession on an id that is not in the device table returns
\* ErrNotFound, does not call fn, and leaves the pool as it was (no sub-pool made,
\* no Driver.Open).
C6_UnknownDevice ==
    [][\A t \in Threads :
          (/\ pc[t] \in {"idle", "done"}
           /\ <<pc[t], tid[t], obs[t]>>' # <<pc[t], tid[t], obs[t]>>
           /\ dev[tid'[t]] = NoDevice)
          => /\ pc'[t] = "done"
             /\ obs'[t].res = ErrNotFound /\ obs'[t].fnCalls = 0
             /\ obs'[t].got = NoSession
             /\ UNCHANGED <<poolVars, tpool, tsess>>]_vars

\* a call for the id "b", which no AddOrDetect registered, has returned
C6_Witness ==
    \E t \in Threads :
        /\ pc[t] = "done" /\ tid[t] = "b" /\ dev["b"] = NoDevice
        /\ obs[t].res = ErrNotFound /\ obs[t].fnCalls = 0
        /\ pools["b"] = NoPool

\* C7: WithSession returns the error fn returned when a session was obtained,
\* and the error of the acquisition (pool exhausted, Driver.Open failed) when
\* none was; then fn is not called.
C7_ErrorsUnchanged ==
    \A t \in Threads : pc[t] = "done" /\ obs[t].res # ErrNotFound =>
        IF obs[t].got # NoSession
        THEN obs[t].fnCalls = 1 /\ obs[t].res = obs[t].fnErr
        ELSE /\ obs[t].fnCalls = 0
             /\ obs[t].res = obs[t].acqErr
             /\ obs[t].res \in {ErrCodeDeviceError} \cup OpenErrors

\* one call returned fn's error while the other was refused a session
C7_Witness ==
    /\ pc["t1"] = "done" /\ obs["t1"].res = "FN_ERROR"
    /\ pc["t2"] = "done" /\ obs["t2"].res = ErrCodeDeviceError

\* the end of a run GetSession(id) = s, ReturnSession(id, s), GetSession(id)
\* on a sub-pool with maxIdle >= 1
ReuseRun ==
    /\ Len(chain) = 3
    /\ pools[chain[1].id] # NoPool
    /\ heap[pools[chain[1].id]].maxIdle >= 1

\* C8 as stated: such a run returns the same session without a Driver.Open,
\* and leaves the sub-pool with 1 active and 0 idle sessions.
C8_ReuseAndCounts ==
    ReuseRun =>
        /\ chain[3].err = ErrNil /\ chain[3].sess = chain[1].sess
        /\ ~chain[3].opened
        /\ Cardinality(heap[pools[chain[1].id]].active) = 1
        /\ Len(heap[pools[chain[1].id]].idle) = 0

\* C8 as amended: such a run returns the same session without a Driver.Open;
\* if the sub-pool held no session before the run, it then has 1 active and 0
\* idle sessions.
C8_Reuse ==
    ReuseRun =>
        /\ chain[3].err = ErrNil /\ chain[3].sess = chain[1].sess
        /\ ~chain[3].opened
        /\ chain[1].wasEmpty =>
              /\ heap[pools[chain[1].id]].active = {chain[1].sess}
              /\ Len(heap[pools[chain[1].id]].idle) = 0

\* a run on a sub-pool that was empty has ended
C8_Witness ==
    ReuseRun /\ chain[1].wasEmpty /\ chain[1].opened /\ chain[3].sess = chain[1].sess

\* C9: GetSession on a sub-pool with an empty idle list and maxOpen or more
\* active sessions fails with DEVICE_ERROR, without Driver.Open and without
\* changing the sub-pool; with maxOpen = 1, after GetSession = s and
\* ReturnSession(s), the next GetSession is not refused: it returns a session
\* unless Driver.Open itself fails.
C9_FailFast ==
    [][\A id \in IDs :
          /\ (/\ GetStep(id)
              /\ Len(PoolForGet(id).idle) = 0
              /\ Cardinality(PoolForGet(id).active) >= PoolForGet(id).maxOpen)
             => /\ last'.err = ErrCodeDeviceError /\ last'.sess = NoSession
                /\ ~last'.opened /\ nsess' = nsess
                /\ PoolOfNext(id) = PoolForGet(id)
          /\ (/\ GetStep(id)
              /\ Len(chain') = 3 /\ PoolOfNext(id).maxOpen = 1
              /\ chain'[1].wasEmpty)
             => /\ last'.err # ErrCodeDeviceError
                /\ last'.err # ErrNil => last'.opened]_vars

\* with maxOpen = 1, a GetSession was refused while a session was checked out
C9_Witness ==
    /\ last.op = "Get" /\ last.err = ErrCodeDeviceError
    /\ pools[last.id] # NoPool
    /\ heap[pools[last.id]].maxOpen = 1
    /\ Cardinality(heap[pools[last.id]].active) = 1
    /\ Len(heap[pools[last.id]].idle) = 0

\* C10: ReturnSession(id, s) on a sub-pool whose idle list holds maxIdle
\* sessions takes s out of the active set, closes it, deletes its creation time
\* and leaves the idle list as it was; GetSession on a sub-pool with maxIdle = 0
\* that returns a session has opened it through Driver.Open.
C10_IdleOverflow ==
    [][\A id \in IDs :
          /\ (/\ ReturnStep(id)
              /\ pools[id] # NoPool
              /\ Len(PoolOf(id).idle) >= PoolOf(id).maxIdle)
             => /\ pools' = pools
                /\ last'.sess \notin PoolOfNext(id).active
                /\ PoolOfNext(id).active = PoolOf(id).active \ {last'.sess}
                /\ last'.sess \notin DOMAIN PoolOfNext(id).createdAt
                /\ PoolOfNext(id).idle = PoolOf(id).idle
                /\ closeCount'[last'.sess] = Min(CloseCap, closeCount[last'.sess] + 1)
          /\ (GetStep(id) /\ PoolForGet(id).maxIdle = 0 /\ last'.err = ErrNil)
             => /\ last'.opened
                /\ last'.sess = nsess' /\ nsess' = nsess + 1
                /\ closeCount'[last'.sess] = 0]_vars

\* a sub-pool with maxIdle = 0: a session was returned and closed, and the next
\* GetSession opened another
C10_Witness ==
    /\ last.op = "Get" /\ last.err = ErrNil /\ last.opened
    /\ pools[last.id] # NoPool
    /\ heap[pools[last.id]].maxIdle = 0
    /\ \E s \in Sessions : s # last.sess /\ closeCount[s] = 1 /\ held[s] = ""
    /\ misuse = 0

\* the sub-pools of the map
Mapped == {pools[id] : id \in IDs} \ {NoPool}

\* a step of PoolSpec that is a call of CleanUp()
CleanUpStep == last'.op = "CleanUp" /\ now' = now

\* the idle sessions of dp whose creation time is recorded and lies less than
\* dp.idleTime before now
Young(dp) ==
    SelectSeq(dp.idle, LAMBDA s : /\ s \in DOMAIN dp.createdAt
                                  /\ now - dp.createdAt[s] < dp.idleTime)

\* C11: a CleanUp pass leaves in every idle list exactly the sessions younger
\* than the sub-pool's idleTime, age counted from the time Driver.Open returned
\* the session (which is what createdAt holds, also after returns); it closes
\* every other idle session once per entry and drops its creation time, leaves
\* the active sets alone, and the Stats() that follows counts only the kept ones.
C11_CleanUpEvicts ==
    [][CleanUpStep =>
          /\ pools' = pools
          /\ \A r \in Mapped :
                /\ \A s \in DOMAIN heap[r].createdAt :
                      heap[r].createdAt[s] = openedAt[s]
                /\ heap'[r].idle = Young(heap[r])
                /\ heap'[r].active = heap[r].active
                /\ DOMAIN heap'[r].createdAt =
                      DOMAIN heap[r].createdAt \ (Range(heap[r].idle) \ Range(Young(heap[r])))
          /\ \A s \in AllSessions :
                closeCount'[s] = Min(CloseCap, closeCount[s] + IdleCount(s, Mapped)
                                                 - IdleCount(s, Mapped)')
          /\ \A id \in DOMAIN Stats' :
                Stats'[id].IdleConnections = Len(Young(heap[pools[id]]))]_vars

\* a CleanUp at time 1 has closed an idle session opened at time 0 in a sub-pool
\* with idleTime 1
C11_Witness ==
    /\ last.op = "CleanUp" /\ now = 1 /\ misuse = 0
    /\ \E s \in Sessions :
          /\ s \in Range(swept) /\ openedAt[s] = 0 /\ closeCount[s] = 1
          /\ \E r \in Mapped : heap[r].idleTime = 1 /\ s \notin Range(heap[r].idle)

\* what indexing the map Stats() returns gives for id: the entry, or the zero
\* PoolStats when the map has none
StatsAt(id) ==
    IF id \in DOMAIN Stats THEN Stats[id]
    ELSE [ActiveConnections |-> 0, IdleConnections |-> 0, MaxOpen |-> 0, MaxIdle |-> 0]

\* the number of mapped sub-pools that have session s in their active set
ActiveCount(s, refs) == Cardinality({r \in refs : s \in heap[r].active})

\* C12: when Manager.Close() returns, Stats() reports 0 active and 0 idle
\* connections for every device that had a sub-pool, and this stays so until a
\* GetSession call looks a sub-pool up again.
C12_CloseTotal ==
    [][/\ Close =>
             \A id \in IDs : pools[id] # NoPool =>
                 /\ StatsAt(id)'.ActiveConnections = 0
                 /\ StatsAt(id)'.IdleConnections = 0
       /\ (Mapped = {} /\ ~(\E t \in Threads : GetSessionMap(t))) => Mapped' = {}]_vars

\* Close has returned while a callback was running on a session of a sub-pool,
\* and Stats() has no connection to report
C12_Witness ==
    /\ shut /\ DOMAIN Stats = {}
    /\ \E t \in Threads : pc[t] \in {"fn", "ret"} /\ closeCount[tsess[t]] >= 1

\* C13: ConnectionPool.Close calls Close on every session that is in the idle
\* list or the active set of a sub-pool of the map (once per place it has there,
\* sessions checked out by a running callback included) and on no other, leaves
\* idle, active and createdAt of each of these sub-pools empty, and the map empty.
C13_CloseClosesAll ==
    [][Close =>
          /\ \A s \in AllSessions :
                closeCount'[s] = Min(CloseCap, closeCount[s] + IdleCount(s, Mapped)
                                                 + ActiveCount(s, Mapped))
          /\ \A r \in Mapped :
                /\ heap'[r].idle = <<>> /\ heap'[r].active = {}
                /\ DOMAIN heap'[r].createdAt = {}
          /\ \A id \in IDs : pools'[id] = NoPool]_vars

\* Close has closed an idle session and a session a callback is running on
C13_Witness ==
    /\ shut /\ Mapped = {}
    /\ \E t \in Threads :
          /\ pc[t] = "fn" /\ closeCount[tsess[t]] = 1
          /\ \E s \in Sessions :
                s # tsess[t] /\ s <= nsess /\ closeCount[s] = 1 /\ Holders(s) = {}

\* C14: once Manager.Close() has returned, every WithSession call has finished
\* and none was started after the Close, every session Driver.Open ever returned
\* has been closed.
C14_ShutdownClosesAll ==
    (shut /\ \A t \in Threads : pc[t] \in {"idle", "done"})
        => \A s \in 1..nsess : closeCount[s] >= 1

\* the position of the first driver whose Detect does not answer (false, nil),
\* 0 when there is none
FirstHit(outcomes) ==
    IF \A i \in DOMAIN outcomes : outcomes[i] = "nomatch" THEN 0
    ELSE CHOOSE i \in DOMAIN outcomes :
            /\ outcomes[i] # "nomatch"
            /\ \A j \in 1..(i - 1) : outcomes[j] = "nomatch"

\* the calls of Detect were made on the drivers 1, 2, .. n, in this order
InOrder(log, n) == Len(log) = n /\ \A j \in 1..n : log[j] = j

\* a step of RegSpec that is a call of AddOrDetect
AddStep == rcall'.op = "AddOrDetect"

\* C15: Registry.Detect calls the drivers' Detect one at a time in registration
\* order and returns the first driver that answers true: the drivers before it
\* were all called and answered false without error, no driver after it is
\* called; when every driver answers false (or none is registered) all were
\* called and the result is a DRIVER_NOT_FOUND error.
C15_DetectInOrder ==
    rcall.op = "Detect" =>
        LET o == rcall.outcomes
            r == rcall.res
            k == FirstHit(o) IN
        /\ r.probed = Len(r.log)
        /\ k = 0 => /\ r.err = ErrCodeDriverNotFound /\ r.driver = NoDriver
                    /\ InOrder(r.log, Len(reg))
        /\ (k # 0 /\ o[k] = "match") =>
                    /\ r.err = ErrNil /\ r.driver = reg[k]
                    /\ InOrder(r.log, k)
        /\ r.err = ErrNil =>
                    /\ o[Len(r.log)] = "match"
                    /\ \A j \in 1..(Len(r.log) - 1) : o[j] = "nomatch"

\* two different drivers, the first answers false and the second true: the
\* second is returned after the first was tried
C15_Witness ==
    /\ rcall.op = "Detect" /\ Len(reg) = 2 /\ reg[1] # reg[2]
    /\ rcall.outcomes = <<"nomatch", "match">>
    /\ rcall.res.driver = reg[2] /\ rcall.res.log = <<1, 2>>

\* C16: when a driver's Detect returns an error (every driver before it
\* having answered false), Registry.Detect returns that error and no driver, and
\* calls no driver registered after it, also when a later one would match.
C16_DetectErrorStops ==
    rcall.op = "Detect" =>
        LET o == rcall.outcomes
            r == rcall.res
            k == FirstHit(o) IN
        (k # 0 /\ o[k] # "match") =>
            /\ r.err = o[k] /\ r.err \notin {ErrNil, ErrCodeDriverNotFound}
            /\ r.driver = NoDriver
            /\ InOrder(r.log, k)

\* the first driver failed with CONNECTION_FAILED, the second would have matched
C16_Witness ==
    /\ rcall.op = "Detect" /\ Len(reg) = 2
    /\ rcall.outcomes = <<"CONNECTION_FAILED", "match">>
    /\ rcall.res.err = "CONNECTION_FAILED" /\ rcall.res.log = <<1>>

\* C17: the device table has at most one record per id, filed under its own
\* id; a successful AddOrDetect(id, ep, d) makes the record of id consist of id,
\* ep, the driver resolved by this call and that driver's name, whatever the
\* record was before, and changes no other record; nothing else changes the table.
C17_OneRecordPerID ==
    [][/\ (AddStep /\ rcall'.res.err = ErrNil) =>
             /\ dev'[rcall'.id] = [ID |-> rcall'.id, Endpoint |-> rcall'.ep,
                                   Driver |-> rcall'.res.driver,
                                   DriverName |-> Name(rcall'.res.driver)]
             /\ \A id \in IDs \ {rcall'.id} : dev'[id] = dev[id]
             /\ Cardinality({r \in List' : r.ID = rcall'.id}) = 1
       /\ ~AddStep => dev' = dev
       /\ \A id \in IDs : dev'[id] # NoDevice => dev'[id].ID = id]_vars

\* an id registered with one endpoint and driver was registered again with
\* another endpoint and another driver
C17_Witness ==
    /\ rcall.op = "AddOrDetect" /\ rcall.res.err = ErrNil
    /\ rcall.had # NoDevice
    /\ rcall.had.Endpoint # rcall.ep /\ rcall.had.Driver # rcall.res.driver
    /\ dev[rcall.id].Endpoint = rcall.ep /\ dev[rcall.id].Driver = rcall.res.driver

\* C18: an AddOrDetect with no driver given whose detection fails returns the
\* error of the failing driver's Detect, or DRIVER_NOT_FOUND when no driver
\* matched, and leaves the device table as it was.
C18_FailureLeavesTable ==
    [][(AddStep /\ rcall'.d = NoDriver) =>
          LET o == rcall'.outcomes
              k == FirstHit(o) IN
          /\ k = 0 => rcall'.res.err = ErrCodeDriverNotFound /\ dev' = dev
          /\ (k # 0 /\ o[k] # "match") => rcall'.res.err = o[k] /\ dev' = dev
          /\ rcall'.res.err # ErrNil => dev' = dev]_vars

\* an AddOrDetect for an id that has a record failed with a driver's error, and
\* the record is still there
C18_Witness ==
    /\ rcall.op = "AddOrDetect" /\ rcall.d = NoDriver
    /\ rcall.res.err = "CONNECTION_FAILED"
    /\ rcall.had # NoDevice /\ dev[rcall.id] = rcall.had

\* C19: AddOrDetect with a driver stores that driver and calls no Detect;
\* with no driver it stores the first registered driver whose Detect answers
\* true; the DriverName stored is the Name() of the driver stored, and List()
\* then has a record with the id.
C19_StoredDriver ==
    [][(AddStep /\ rcall'.res.err = ErrNil) =>
          /\ rcall'.d # NoDriver =>
                /\ dev'[rcall'.id].Driver = rcall'.d
                /\ rcall'.res.probed = 0 /\ rcall'.res.log = <<>>
          /\ rcall'.d = NoDriver =>
                /\ FirstHit(rcall'.outcomes) # 0
                /\ dev'[rcall'.id].Driver = reg[FirstHit(rcall'.outcomes)]
          /\ dev'[rcall'.id].DriverName = Name(dev'[rcall'.id].Driver)
          /\ \E r \in List' : r.ID = rcall'.id]_vars

\* one id got the second registered driver by detection, replacing another
\* driver, and the other id has a driver that was given, not registered
C19_Witness ==
    /\ rcall.op = "AddOrDetect" /\ rcall.d = NoDriver /\ rcall.res.err = ErrNil
    /\ Len(reg) = 2 /\ rcall.res.log = <<1, 2>>
    /\ dev[rcall.id].Driver = reg[2] /\ dev[rcall.id].DriverName = Name(reg[2])
    /\ rcall.had # NoDevice /\ rcall.had.DriverName # Name(reg[2])
    /\ \E id \in IDs \ {rcall.id} :
          dev[id] # NoDevice /\ dev[id].Driver \notin Range(reg)

\* the goroutines that hold (or, for a reader, wait in Lock() for) the lock
\* goroutine g is waiting for
Waits(g) ==
    IF lk[g].pc = "wantW" THEN ({locks.w} \cup locks.r) \ {""}
    ELSE IF lk[g].pc = "wantR"
    THEN IF locks.w # "" THEN {locks.w}
         ELSE {h \in Goroutines : lk[h].pc = "wantW"}
    ELSE IF lk[g].pc = "wantD" THEN {locks.d[lk[g].pool]} \ {""}
    ELSE {}

\* the goroutines g cannot go on without: those it waits for, those they wait
\* for, and so on
WaitsOn(g) ==
    LET w1 == Waits(g)
        w2 == w1 \cup UNION {Waits(h) : h \in w1} IN
    w2 \cup UNION {Waits(h) : h \in w2}

\* C20: a GetSession or ReturnSession for one device never waits, directly or
\* through the lock holders it waits for, for a goroutine that is inside
\* Driver.Open for another device.
C20_DevicesIndependent ==
    \A g \in Goroutines : lk[g].op \in {"Get", "Return"} =>
        \A h \in WaitsOn(g) : ~(lk[h].pc = "open" /\ lk[h].id # lk[g].id)

\* C21: the cleanup task runs a CleanUp pass only for a tick it took from
\* ticker.C, and once the ctx is cancelled it runs no CleanUp pass any more.
C21_NoPassAfterCancel ==
    [][TaskCleanUp => (tickerC = 1 /\ tickerC' = 0 /\ ~ctxDone)]_vars

\* a step of PoolSpec that is a call of Close()
CloseStep == last'.op = "Close" /\ now' = now

\* C22: every call of Close returns nil and leaves the map without sub-pools
\* and no session in any sub-pool; a call that finds the map empty (a second
\* call with no GetSession in between) closes no session and changes nothing in
\* the pool.
C22_CloseIdempotent ==
    [][CloseStep =>
          /\ last'.err = ErrNil
          /\ \A id \in IDs : pools'[id] = NoPool
          /\ \A r \in PoolRefs : IsEmpty(heap'[r])
          /\ Mapped = {} => UNCHANGED poolVars]_vars

\* Close was called on a pool an earlier Close had emptied: the session that
\* was checked out then has been closed once, not twice
C22_Witness ==
    /\ last.op = "Close" /\ last.wasEmpty /\ misuse = 0
    /\ \E s \in Sessions : held[s] # "" /\ closeCount[s] = 1

\* the slice holds one element per tracked id, with the value vals[id]
OnePerID(slice, vals) ==
    /\ Len(slice) = Cardinality(Tracked)
    /\ \A id \in Tracked :
          Cardinality({i \in 1..Len(slice) : slice[i].val = vals[id]}) = 1

\* C23: List() and DeviceInfos() return one element per id the device table
\* has at the call, holding that record's fields; the slice is not changed by a
\* later AddOrDetect, and an assignment to the id, endpoint or driver name of an
\* element changes neither the device table nor what List() returns.
C23_ListIsCopy ==
    [][/\ rcall'.op = "List" =>
             OnePerID(listed', dev) /\ dev' = dev
       /\ rcall'.op = "DeviceInfos" =>
             OnePerID(listed', [id \in Tracked |-> DeviceInfo(dev[id]).val]) /\ dev' = dev
       /\ rcall'.op = "AddOrDetect" => listed' = listed
       /\ rcall'.op = "Mutate" => dev' = dev /\ List' = List]_vars

\* the client has changed the id of an element of a List() of two devices, and
\* the table still has both under their ids
C23_Witness ==
    /\ rcall.op = "Mutate" /\ Len(listed) = 2 /\ Tracked = IDs
    /\ \E i \in 1..2 : "Endpoint" \in DOMAIN listed[i].val /\ listed[i].val.ID = "x"
    /\ \A id \in IDs : dev[id].ID = id

\* C24: a record of the device table stays there (as it is, or as a later
\* AddOrDetect of its id wrote it) through every step of WithSession, CleanUp,
\* SetLimits and Stats, and Manager.Close() removes it: after Close the device
\* table lists no device.
C24_DeviceLifecycle ==
    [][/\ ~Close => \A id \in IDs : dev[id] # NoDevice => dev'[id] # NoDevice
       /\ Close => \A id \in IDs : dev'[id] = NoDevice]_vars

\* C25: a session the pool has called Close on is from then on in no idle
\* list and no active set of a sub-pool of the map, and no GetSession returns it.
C25_ClosedIsTerminal ==
    [][/\ \A s \in Sessions : closeCount'[s] >= 1 =>
             \A r \in Mapped' : s \notin heap'[r].active /\ s \notin Range(heap'[r].idle)
       /\ \A t \in Threads : (pc[t] = "getSess" /\ pc'[t] = "fn") =>
             closeCount[tsess'[t]] = 0]_vars

\* C26: ReturnSession(id, s) for an id that has no sub-pool in the map calls
\* Close on s (and on no other session), changes no sub-pool (s is added to no
\* idle list) and leaves the map as it was, without a sub-pool for id.
C26_ReturnToMissingPool ==
    [][\A id \in IDs : (ReturnStep(id) /\ pools[id] = NoPool) =>
          /\ closeCount' = [closeCount EXCEPT ![last'.sess] = Min(CloseCap, @ + 1)]
          /\ pools' = pools /\ heap' = heap]_vars

\* a session that was checked out when Close emptied the map has been returned
\* and closed a second time; the map still has no sub-pool for its id
C26_Witness ==
    /\ last.op = "Return" /\ misuse = 0 /\ last.sess \in Sessions
    /\ pools[last.id] = NoPool
    /\ closeCount[last.sess] = 2

\* the elements of sub are elements of seq, in the order they have in seq
KeepsOrder(sub, seq) ==
    \E f \in [1..Len(sub) -> 1..Len(seq)] :
        /\ \A i, j \in 1..Len(sub) : i < j => f[i] < f[j]
        /\ \A i \in 1..Len(sub) : sub[i] = seq[f[i]]

\* C27: ReturnSession pushes the session at the end of the idle list;
\* GetSession on a sub-pool with a non-empty idle list returns the last entry of
\* the list, which is the most recently pushed of the sessions still idle, takes
\* it off the list, puts it in the active set and calls no Driver.Open; CleanUp
\* leaves the sessions it keeps in the order they had.
C27_LifoReuse ==
    [][/\ \A id \in IDs :
             /\ (GetStep(id) /\ Len(PoolForGet(id).idle) > 0) =>
                   LET idle == PoolForGet(id).idle IN
                   /\ last'.err = ErrNil /\ last'.sess = idle[Len(idle)]
                   /\ ~last'.opened /\ nsess' = nsess
                   /\ PoolOfNext(id).idle = SubSeq(idle, 1, Len(idle) - 1)
                   /\ last'.sess \in PoolOfNext(id).active
             /\ (/\ ReturnStep(id) /\ pools[id] # NoPool
                 /\ Len(PoolOf(id).idle) < PoolOf(id).maxIdle) =>
                   PoolOfNext(id).idle = Append(PoolOf(id).idle, last'.sess)
       /\ CleanUpStep => \A r \in Mapped : KeepsOrder(heap'[r].idle, heap[r].idle)]_vars

\* two sessions were idle; GetSession returned session 1, which was opened
\* first and returned last, and session 2 is still idle
C27_Witness ==
    /\ last.op = "Get" /\ ~last.opened /\ last.sess = 1 /\ misuse = 0
    /\ pools[last.id] # NoPool
    /\ heap[pools[last.id]].idle = <<2>>
    /\ heap[pools[last.id]].active = {1}

\* the limits a sub-pool has
Limits(dp) == <<dp.maxIdle, dp.maxOpen, dp.idleTime>>

\* C28: SetLimits changes no sub-pool that exists and nothing Stats() reports;
\* a sub-pool gets the limits the pool has at the GetSession that creates it and
\* keeps them in every later call; ReturnSession and GetSession decide by the
\* limits of the sub-pool, whatever the limits of the pool are by then.
C28_LimitsCaptured ==
    [][/\ last'.op = "SetLimits" => heap' = heap /\ pools' = pools /\ Stats' = Stats
       /\ \A r \in Mapped \cap Mapped' : Limits(heap'[r]) = Limits(heap[r])
       /\ \A id \in DOMAIN Stats' :
             /\ Stats'[id].MaxIdle = heap'[pools'[id]].maxIdle
             /\ Stats'[id].MaxOpen = heap'[pools'[id]].maxOpen
       /\ \A id \in IDs :
             /\ (GetStep(id) /\ pools[id] = NoPool) =>
                   Limits(PoolOfNext(id)) = <<pMaxIdle, pMaxOpen, pIdleTime>>
             /\ (GetStep(id) /\ pools[id] # NoPool /\ Len(PoolOf(id).idle) = 0) =>
                   (last'.err = ErrCodeDeviceError
                      <=> Cardinality(PoolOf(id).active) >= PoolOf(id).maxOpen)
             /\ (ReturnStep(id) /\ pools[id] # NoPool) =>
                   (Len(PoolOfNext(id).idle) = Len(PoolOf(id).idle) + 1
                      <=> Len(PoolOf(id).idle) < PoolOf(id).maxIdle)]_vars

\* the pool's maxIdle was set to 0 after the sub-pool was created with maxIdle
\* 5, and a session returned after that was still kept idle
C28_Witness ==
    /\ last.op = "Return" /\ misuse = 0 /\ pMaxIdle = 0
    /\ pools[last.id] # NoPool
    /\ heap[pools[last.id]].maxIdle = DefaultMaxIdle
    /\ heap[pools[last.id]].idle = <<last.sess>>

C30_OpenFailure ==
    [][\A id \in IDs : (GetStep(id) /\ last'.opened /\ last'.err # ErrNil) =>
          /\ Len(PoolForGet(id).idle) = 0
          /\ Cardinality(PoolForGet(id).active) < PoolForGet(id).maxOpen
          /\ last'.err \in OpenErrors /\ last'.sess = NoSession
          /\ PoolOfNext(id) = PoolForGet(id)
          /\ nsess' = nsess /\ closeCount' = closeCount /\ held' = held]_vars

\* Driver.Open failed for a second session of a sub-pool whose first session
\* is checked out; the sub-pool still has this one active session
C30_Witness ==
    /\ last.op = "Get" /\ last.opened /\ last.err = "CONNECTION_FAILED" /\ misuse = 0
    /\ pools[last.id] # NoPool
    /\ Cardinality(heap[pools[last.id]].active) = 1
    /\ DOMAIN heap[pools[last.id]].createdAt = heap[pools[last.id]].active
    /\ heap[pools[last.id]].idle = <<>>


\* C31: ReturnSession(id, s) of a session that is not in the active set of the
\* sub-pool of id is accepted: with len(idle) < maxIdle it appends s to the idle
\* list, closes nothing and leaves the active set alone. A GetSession(id) that
\* finds on top of the idle list a session the client already holds for id
\* hands this session out a second time, with no ReturnSession in between.
C31_ReturnNotValidated ==
    [][\A id \in IDs :
          /\ (/\ ReturnStep(id) /\ pools[id] # NoPool
              /\ last'.sess \notin PoolOf(id).active
              /\ Len(PoolOf(id).idle) < PoolOf(id).maxIdle) =>
                /\ PoolOfNext(id).idle = Append(PoolOf(id).idle, last'.sess)
                /\ PoolOfNext(id).active = PoolOf(id).active
                /\ closeCount' = closeCount /\ pools' = pools
          /\ (/\ GetStep(id) /\ Len(PoolOf(id).idle) > 0
              /\ held[PoolOf(id).idle[Len(PoolOf(id).idle)]] = id) =>
                /\ last'.err = ErrNil /\ ~last'.opened
                /\ last'.sess = PoolOf(id).idle[Len(PoolOf(id).idle)]
                /\ held'[last'.sess] = id]_vars

\* after a double return GetSession has handed out a session that is still in
\* the idle list of the sub-pool, so that the next GetSession hands it out again
C31_Witness ==
    /\ last.op = "Get" /\ last.err = ErrNil /\ ~last.opened
    /\ last.sess \in Sessions /\ held[last.sess] = last.id
    /\ pools[last.id] # NoPool
    /\ last.sess \in heap[pools[last.id]].active
    /\ heap[pools[last.id]].idle = <<last.sess>>

\* no GetSession hands out a session the client holds and has not returned
NoDoubleHandOut ==
    [][\A id \in IDs : (GetStep(id) /\ last'.err = ErrNil) =>
          held[last'.sess] # id]_vars


\* C32: a CleanUp pass closes every idle session that has no creation time in
\* its sub-pool, once for each entry it has in the idle list, and takes it off
\* the list, whatever the idleTime of the sub-pool and the time are.
C32_UnstampedEvicted ==
    [][CleanUpStep =>
          \A r \in Mapped : \A s \in Range(heap[r].idle) :
              s \notin DOMAIN heap[r].createdAt =>
                 /\ s \notin Range(heap'[r].idle)
                 /\ closeCount'[s] >= Min(CloseCap, closeCount[s]
                                                    + Occurrences(heap[r].idle, s))]_vars

\* a session that Driver.Open never returned to this pool was returned to a
\* sub-pool with idleTime 5; the CleanUp at time 0 closed it and kept the idle
\* session of the sub-pool that has a creation time
C32_Witness ==
    /\ last.op = "CleanUp" /\ now = 0
    /\ swept = <<ForeignSession>> /\ closeCount[ForeignSession] = 1
    /\ \E r \in Mapped :
          /\ heap[r].idleTime = DefaultIdleTime
          /\ Len(heap[r].idle) = 1
          /\ heap[r].idle[1] \in DOMAIN heap[r].createdAt
          /\ closeCount[heap[r].idle[1]] = 0


\* C33: GetSession never returns from the idle list a session whose age since
\* Driver.Open returned it is at least the idleTime of the sub-pool, whenever
\* the CleanUp passes of the cleanup task run.
C33_NoOverAgeReuse ==
    [][\A id \in IDs, ep \in Endpoints, d \in Drivers :
          (/\ PoolGetSession(id, Device(id, ep, d), "ok")
           /\ last'.err = ErrNil /\ ~last'.opened) =>
              now - openedAt[last'.sess] < PoolForGet(id).idleTime]_vars


\* C34: while an AddOrDetect for one device waits for the answers of the
\* drivers' Detect, no WithSession for another, registered device and no List
\* waits for Manager.mu.
C34_NoWaitDuringDetect ==
    \A h \in Goroutines : (lk[h].op = "AddOrDetect" /\ lk[h].pc = "detect") =>
        \A g \in Goroutines \ {h} :
            (/\ lk[g].pc = "wantMR"
             /\ \E id \in IDs \ {lk[h].id} :
                   /\ dev[id] # NoDevice
                   /\ lk[g].op = "WithSession" => lk[g].id = id) => MRFree


\* a goroutine is inside DevicePool.getSession, or waits for dp.mu to enter it
InGet(g) == lk[g].op = "Get" /\ lk[g].pc \in {"wantD", "open"}

\* C35: a GetSession(id) that finds a sub-pool for id in the map makes none and
\* works on the one of the map; one that finds none makes one, stores it and
\* works on it; and the sub-pool of an id is replaced by no step: it only goes
\* away in a Close. So the GetSession calls for an id that run at once, with no
\* Close since the first of them began, all work on the one sub-pool of the map.
C35_OneSubPoolPerID ==
    [][/\ \A g \in Goroutines : LockGetMap(g) =>
             /\ lk'[g].pool = pools'[lk[g].id] /\ lk'[g].pool # NoPool
             /\ pools[lk[g].id] # NoPool => (pools' = pools /\ heap' = heap)
             /\ pools[lk[g].id] = NoPool =>
                   /\ lk'[g].pool \notin LockReach(pools, lk)
                   /\ \A id \in IDs \ {lk[g].id} : pools'[id] = pools[id]
       /\ \A id \in IDs : (pools[id] # NoPool /\ pools'[id] # pools[id]) =>
             /\ pools' = [i \in IDs |-> NoPool]
             /\ \E k \in Keepers : lk[k].op = "Close" /\ lk'[k] = Idle
       /\ \A g, h \in Goroutines :
             (/\ InGet(g) /\ InGet(h) /\ lk[g].id = lk[h].id
              /\ lk[g].pool = lk[h].pool
              /\ InGet(g)' /\ InGet(h)') => lk'[g].pool = lk'[h].pool]_vars

\* two first GetSession calls for the same id run at once: no session was ever
\* opened, one caller is in Driver.Open and the other waits for dp.mu of the
\* same sub-pool, which is the one of the map
C35_Witness ==
    /\ nsess = 0
    /\ InGet("g1") /\ InGet("g3") /\ lk["g1"].id = lk["g3"].id
    /\ lk["g1"].pc = "open" /\ lk["g3"].pc = "wantD"
    /\ lk["g1"].pool = lk["g3"].pool
    /\ lk["g1"].pool = pools[lk["g1"].id]
    /\ \A id \in IDs \ {lk["g1"].id} : pools[id] = NoPool


\* the positions of the registered drivers that have the name
Named(drivers, name) == {i \in 1..Len(drivers) : Name(drivers[i]) = name}

\* C36: Get(name) returns the driver registered first among those of this
\* name, and nil when there is none; Register appends the driver also when a
\* driver of its name is registered, so the later one is never what Get
\* returns; Detect still probes it at its position and returns it when it is
\* the first to match.
C36_GetFirstRegistered ==
    [][/\ rcall'.op = "Get" =>
             LET hits == Named(reg, rcall'.name) IN
             /\ reg' = reg
             /\ hits = {} => rcall'.res.driver = NoDriver
             /\ hits # {} =>
                   /\ rcall'.res.index \in hits
                   /\ \A i \in hits : rcall'.res.index <= i
                   /\ rcall'.res.driver = reg[rcall'.res.index]
       /\ rcall'.op = "Register" => reg' = Append(reg, rcall'.d)
       /\ rcall'.op = "Detect" =>
             \A j \in 1..Len(reg) :
                 (/\ Named(reg, Name(reg[j])) # {j}
                  /\ rcall'.outcomes[j] = "match"
                  /\ \A i \in 1..(j - 1) : rcall'.outcomes[i] = "nomatch") =>
                     /\ rcall'.res.driver = reg[j] /\ rcall'.res.err = ErrNil
                     /\ rcall'.res.log = [i \in 1..j |-> i]]_vars

\* d1 and then d3 are registered, both named alpha; Get("alpha") returned d1
C36_Witness ==
    /\ reg = <<"d1", "d3">>
    /\ rcall.op = "Get" /\ rcall.name = "alpha"
    /\ rcall.res = [driver |-> "d1", index |-> 1]


\* C37: a session handed to the callback of a WithSession(id) that read the
\* record the table now has for id was opened by the driver and against the
\* endpoint of this record.
C37_SessionOfCurrentRecord ==
    [][\A t \in Threads :
          (/\ GetSessionPool(t, "ok") /\ pc'[t] = "fn"
           /\ tdev[t] = dev[tid[t]]) =>
              sessOrigin'[tsess'[t]] = dev[tid[t]]]_vars


\* goroutine g is inside a call: it has begun one and not returned, or it is in
\* fn of WithSession with the session it got
Busy(g) == lk[g].pc # "idle" \/ lk[g].sess # NoSession

\* the mutexes goroutine g holds: m Manager.mu, r Registry.mu, p
\* ConnectionPool.mu, d a DevicePool.mu
Holds(g) ==
    {x \in {"m"} : locks.m = g} \cup {x \in {"r"} : g \in locks.rr}
    \cup {x \in {"p"} : locks.w = g \/ g \in locks.r}
    \cup {x \in {"d"} : \E ref \in PoolRefs : locks.d[ref] = g}

\* the mutex goroutine g is about to lock, "" for none
Wants(g) ==
    CASE lk[g].pc \in {"wantMW", "wantMR"} -> "m"
      [] lk[g].pc \in {"wantRW", "wantRR"} -> "r"
      [] lk[g].pc \in {"wantW", "wantR"} -> "p"
      [] lk[g].pc = "wantD" -> "d"
      [] OTHER -> ""

\* the goroutines that hold (or, for a reader, wait in Lock() for) the mutex
\* goroutine g is waiting for
MgrWaits(g) ==
    IF lk[g].pc = "wantMW" THEN {locks.m} \ {""}
    ELSE IF lk[g].pc = "wantMR"
    THEN IF locks.m # "" THEN {locks.m}
         ELSE {h \in Goroutines : lk[h].pc = "wantMW"}
    ELSE IF lk[g].pc = "wantRW" THEN locks.rr
    ELSE IF lk[g].pc = "wantRR" THEN {h \in Goroutines : lk[h].pc = "wantRW"}
    ELSE Waits(g)

\* the goroutines g cannot go on without
MgrWaitsOn(g) ==
    LET w1 == MgrWaits(g)
        w2 == w1 \cup UNION {MgrWaits(h) : h \in w1} IN
    w2 \cup UNION {MgrWaits(h) : h \in w2}

\* locks are nested only Manager.mu -> Registry.mu and ConnectionPool.mu ->
\* DevicePool.mu; no goroutine waits, directly or through others, for itself;
\* and a goroutine inside a call can take a step or waits for one that can
LockOrder ==
    \A g \in Goroutines :
        /\ Holds(g) \in {{}, {"m"}, {"m", "r"}, {"r"}, {"p"}, {"d"}}
        /\ Wants(g) \in {"m", "p"} => Holds(g) = {}
        /\ Wants(g) = "r" => Holds(g) \subseteq {"m"}
        /\ Wants(g) = "d" => Holds(g) \subseteq {"p"}
        /\ g \notin MgrWaitsOn(g)
        /\ Busy(g) => \E h \in {g} \cup MgrWaitsOn(g) : ENABLED Progress(h)

\* C38: with drivers and callbacks that return, the calls of AddOrDetect, List,
\* WithSession, CleanUp, Stats, SetLimits, Close, Register and Detect, in any
\* interleaving, nest their locks only in the orders Manager.mu -> Registry.mu
\* and ConnectionPool.mu -> DevicePool.mu, never wait for each other in a
\* circle, and every call that has begun returns.
C38_DeadlockFree ==
    /\ []LockOrder
    /\ \A g \in Goroutines : Busy(g) ~> ~Busy(g)

\* AddOrDetect holds Manager.mu and Registry.mu while the drivers probe, and at
\* the same time Close holds ConnectionPool.mu and waits for the DevicePool.mu
\* of a sub-pool whose GetSession is in Driver.Open
C38_Witness ==
    /\ \E g \in Goroutines : lk[g].pc = "open" /\ Holds(g) = {"d"}
    /\ \E g \in Goroutines : lk[g].op = "Close" /\ Holds(g) = {"p"} /\ Wants(g) = "d"
                             /\ MgrWaits(g) # {}
    /\ \E g \in Goroutines : Holds(g) = {"m", "r"}


\* C39: under any interleaving of WithSession, CleanUp and Close the pool calls
\* Close at most once on a session.
C39_ClosedAtMostOnce ==
    \A s \in Sessions : closeCount[s] <= 1


\* the creation times of dp are those of its idle and its active sessions
Exact(dp) == DOMAIN dp.createdAt = Range(dp.idle) \cup dp.active

\* a ReturnSession of a session that is not checked out from the sub-pool the
\* id has now: never checked out, returned before, or checked out from a
\* sub-pool that a Close has dropped since
ImproperReturn ==
    \E id \in IDs, sess \in AllSessions :
        PoolReturnSession(id, sess) /\ sess \notin PoolOf(id).active

\* C40: a sub-pool is created with exact creation times, and every call but a
\* ReturnSession of a session that is not checked out from the sub-pool keeps
\* them exact: the keys of createdAt are the sessions of the idle list and of the
\* active set, so a closed session leaves no creation time behind and no
\* pooled session is without one.
C40_TimestampsExact ==
    [][\A r \in Mapped' :
          ((r \in Mapped => Exact(heap[r])) /\ ~ImproperReturn) => Exact(heap'[r])]_vars

\* the cleanup task has closed an idle session of a sub-pool that has another
\* session checked out: the sub-pool has the creation time of the session that
\* is checked out and of no other
C40_Witness ==
    /\ last.op = "CleanUp" /\ swept # <<>>
    /\ \E r \in Mapped, s \in Sessions :
          /\ heap[r].active = {s} /\ heap[r].idle = <<>>
          /\ DOMAIN heap[r].createdAt = {s}
          /\ \E e \in Range(swept) : e # s /\ closeCount[e] = 1
                                     /\ sessOrigin[e] = heap[r].device

====
